---------------------------- MODULE Spec2Model ----------------------------
(***************************************************************************)
(* Model of the neardupe package of gopostal: the cgo binding that guards  *)
(* libpostal's near-dupe hashing and language classification with one      *)
(* process-wide mutex (src/neardupe/neardupe.go).                          *)
(*                                                                         *)
(* A Go string is a sequence of bytes (0..255).  The native library is not *)
(* part of the repository; its functions are modelled from the design      *)
(* document and from the outputs the package's tests expect.               *)
(***************************************************************************)
EXTENDS Naturals, Integers, Sequences, FiniteSets, TLC

(***************************************************************************)
(* Bounds of the model.                                                    *)
(***************************************************************************)
\* number of goroutines calling the package concurrently
NumGoroutines == 2
\* largest number of components whose every order is compared
MaxPermuted == 4
\* the largest geohash precision a call asks for
MaxPrecision == 2

(***************************************************************************)
(* Strings.                                                                *)
(***************************************************************************)
Printable ==
  " !?#$%&'()*+,-./0123456789:;<=>?@ABCDEFGHIJKLMNOPQRSTUVWXYZ[?]^_?abcdefghijklmnopqrstuvwxyz{|}~"

\* the byte of a printable ASCII character, given as a one-character string
\* (the double quote, the backslash and the backquote cannot be written in a
\* literal and are not used)
Code(c) == 31 + (CHOOSE i \in 1..Len(Printable) : SubSeq(Printable, i, i) = c)

RECURSIVE B(_)
\* the bytes of an ASCII string literal
B(s) == IF Len(s) = 0 THEN <<>> ELSE <<Code(Head(s))>> \o B(Tail(s))

\* the bytes of each literal of a list
BS(ss) == [i \in 1..Len(ss) |-> B(ss[i])]

RECURSIVE Join(_, _)
\* the strings of a sequence, joined with a separator
Join(ss, sep) ==
  IF Len(ss) = 0 THEN <<>>
  ELSE IF Len(ss) = 1 THEN ss[1]
  ELSE ss[1] \o sep \o Join(Tail(ss), sep)

\* the position of the first occurrence of a byte in a string, 0 without one
IndexByte(s, b) ==
  IF \A i \in 1..Len(s) : s[i] # b THEN 0
  ELSE CHOOSE i \in 1..Len(s) : s[i] = b /\ \A j \in 1..(i-1) : s[j] # b

RECURSIVE Split(_, _)
\* the fields of a string between occurrences of the byte sep
Split(s, sep) ==
  LET cut(k) == IF k = 0 THEN <<s>>
                ELSE <<SubSeq(s, 1, k-1)>> \o Split(SubSeq(s, k+1, Len(s)), sep)
  IN cut(IndexByte(s, sep))

LowerByte(b) == IF b >= 65 /\ b <= 90 THEN b + 32 ELSE b
Lower(s) == [i \in 1..Len(s) |-> LowerByte(s[i])]

RECURSIVE Dedup(_)
\* a sequence with every later duplicate removed, first occurrences in order
Dedup(ss) ==
  LET add(init, last) ==
        IF \E i \in 1..Len(init) : init[i] = last THEN init ELSE Append(init, last)
  IN IF Len(ss) = 0 THEN <<>>
     ELSE add(Dedup(SubSeq(ss, 1, Len(ss)-1)), ss[Len(ss)])

RECURSIVE Flatten(_)
Flatten(sss) == IF Len(sss) = 0 THEN <<>> ELSE sss[1] \o Flatten(Tail(sss))

\* the non-empty strings of a sequence, in order
NonEmpty(ss) == SelectSeq(ss, LAMBDA s : Len(s) > 0)

Range(f) == {f[i] : i \in DOMAIN f}

(***************************************************************************)
(* utf8.ValidString, as NearDupeNameOptions uses it.                       *)
(***************************************************************************)
Cont(b) == b >= 128 /\ b <= 191

RECURSIVE ValidString(_)
ValidString(s) ==
  IF Len(s) = 0 THEN TRUE
  ELSE IF s[1] < 128 THEN ValidString(Tail(s))
  ELSE IF s[1] >= 194 /\ s[1] <= 223
    THEN Len(s) >= 2 /\ Cont(s[2]) /\ ValidString(SubSeq(s, 3, Len(s)))
  ELSE IF s[1] >= 224 /\ s[1] <= 239
    THEN /\ Len(s) >= 3
         /\ s[2] >= (IF s[1] = 224 THEN 160 ELSE 128)
         /\ s[2] <= (IF s[1] = 237 THEN 159 ELSE 191)
         /\ Cont(s[3])
         /\ ValidString(SubSeq(s, 4, Len(s)))
  ELSE IF s[1] >= 240 /\ s[1] <= 244
    THEN /\ Len(s) >= 4
         /\ s[2] >= (IF s[1] = 240 THEN 144 ELSE 128)
         /\ s[2] <= (IF s[1] = 244 THEN 143 ELSE 191)
         /\ Cont(s[3])
         /\ Cont(s[4])
         /\ ValidString(SubSeq(s, 5, Len(s)))
  ELSE FALSE

(***************************************************************************)
(* The native library (libpostal), modelled from the design document and   *)
(* from the key lists the tests of the package expect.                     *)
(***************************************************************************)
SEP == B("|")
SP == 32

\* a text the pipeline accepts: malformed text counts as no text at all
Text(v) == IF ValidString(v) THEN v ELSE <<>>

\* a text as it is
Unsanitized(v) == v

\* a text with every key separator replaced by a space
Sanitize(v) == [i \in 1..Len(v) |-> IF <<v[i]>> = SEP THEN SP ELSE v[i]]

\* the words of a text: leading, trailing and repeated spaces yield no word
Words(s) == NonEmpty(Split(Sanitize(s), SP))
UnWords(ws) == Join(ws, <<SP>>)

\* sliding windows of w bytes over s, left to right; s itself when it is shorter
\* the positions where the characters of a well-formed text start
Starts(s) == SelectSeq([i \in 1..Len(s) |-> i], LAMBDA i : ~Cont(s[i]))

Windows(s, w) ==
  LET win(st) ==
        IF Len(st) <= w THEN <<s>>
        ELSE [i \in 1..(Len(st) - w + 1) |->
                SubSeq(s, st[i], IF i + w <= Len(st) THEN st[i + w] - 1 ELSE Len(s))]
  IN win(Starts(s))

\* the value of the first component carrying a label, <<>> when there is none
Field(labels, values, label) ==
  LET at(k) == IF k = 0 \/ k > Len(values) THEN <<>> ELSE values[k]
      hits == {i \in 1..Len(labels) : labels[i] = label}
  IN at(IF hits = {} THEN 0 ELSE CHOOSE i \in hits : \A j \in hits : i <= j)

(***************************************************************************)
(* LanguageDetector.                                                       *)
(***************************************************************************)
\* the script blocks of a text, by the lead bytes of its UTF-8 characters
Scripts(v) ==
  {"Cyrillic" : i \in {i \in 1..Len(v) : v[i] >= 208 /\ v[i] <= 211}}
  \cup {"Kana" : i \in {i \in 1..(Len(v)-1) : v[i] = 227 /\ v[i+1] >= 129 /\ v[i+1] <= 131}}
  \cup {"Han" : i \in {i \in 1..Len(v) : v[i] >= 228 /\ v[i] <= 233}}
  \cup {"Hangul" : i \in {i \in 1..Len(v) : v[i] >= 234 /\ v[i] <= 237}}

\* the country name that marks Han text as Japanese
Nihon == <<230, 151, 165, 230, 156, 172>>

\* the language a non-Latin script maps to; <<>> for Latin text
ScriptLanguage(scripts, country) ==
  IF "Kana" \in scripts THEN B("ja")
  ELSE IF "Han" \in scripts THEN (IF country = Nihon THEN B("ja") ELSE B("zh"))
  ELSE IF "Hangul" \in scripts THEN B("ko")
  ELSE IF "Cyrillic" \in scripts THEN B("ru")
  ELSE <<>>

CountryLanguage(v) ==
  IF v = B("USA") THEN B("en")
  ELSE IF v = B("France") THEN B("fr")
  ELSE IF v = B("Belgium") THEN B("fr")
  ELSE IF v = B("Germany") THEN B("de")
  ELSE <<>>

LexiconLanguages == BS(<<"en", "fr", "de">>)

\* per-language place-name and street-type dictionaries
Lexicon ==
  << Range(BS(<<"st", "ave", "street", "avenue", "main">>)),
     Range(BS(<<"rue", "de", "la", "paris", "bruxelles">>)),
     Range(BS(<<"unter", "den", "berlin", "strasse">>)) >>

\* the number of tokens a language's lexicon knows
Score(toks, k) == Cardinality({i \in 1..Len(toks) : toks[i] \in Lexicon[k]})

\* the language with the strictly highest positive score, <<>> on a tie or
\* without a match
BestLexicon(toks) ==
  LET best(sc) ==
        LET top == {i \in 1..Len(sc) :
                      sc[i] > 0 /\ \A j \in 1..Len(sc) : j # i => sc[j] < sc[i]}
        IN IF top = {} THEN <<>> ELSE LexiconLanguages[CHOOSE i \in top : TRUE]
  IN best([k \in 1..Len(LexiconLanguages) |-> Score(toks, k)])

\* libpostal_place_languages: script first, then the country table, then the
\* lexicon score over the road and city tokens; "en" on a tie or without a
\* signal
place_languages(labels, values) ==
  LET pick(script, country, lexicon) ==
        IF script # <<>> THEN <<script>>
        ELSE IF country # <<>> THEN <<country>>
        ELSE IF lexicon # <<>> THEN <<lexicon>>
        ELSE <<B("en")>>
  IN pick(ScriptLanguage(UNION {Scripts(Text(values[i])) : i \in 1..Len(values)},
                         Field(labels, values, B("country"))),
          CountryLanguage(Field(labels, values, B("country"))),
          BestLexicon(Words(Lower(Text(Field(labels, values, B("road")))))
                      \o Words(Lower(Text(Field(labels, values, B("city")))))))

(***************************************************************************)
(* Normalizer and VariantExpander.                                         *)
(***************************************************************************)
\* expansions of a trailing street-type abbreviation
StreetTypes(lang, tok) ==
  IF lang # B("en") THEN <<>>
  ELSE IF tok = B("st") THEN BS(<<"saint", "street">>)
  ELSE IF tok = B("ave") THEN BS(<<"avenue">>)
  ELSE IF tok = B("street") THEN BS(<<"street">>)
  ELSE <<>>

\* "5th" also reads "5"
OrdinalForms(tok) ==
  IF /\ Len(tok) >= 3 /\ tok[1] >= 48 /\ tok[1] <= 57
     /\ SubSeq(tok, Len(tok)-1, Len(tok)) = B("th")
    THEN <<tok, SubSeq(tok, 1, Len(tok)-2)>>
  ELSE <<tok>>

\* every head followed by every type, types slowest; then the bare heads
WithTypes(heads, types) ==
  [k \in 1..(Len(types) * Len(heads)) |->
     heads[((k-1) % Len(heads)) + 1] \o <<SP>> \o types[((k-1) \div Len(heads)) + 1]]
  \o heads

\* the words that French street names carry without meaning
Particles == Range(BS(<<"rue", "de", "la", "du">>))

\* the forms of a tokenized street name in one language
StreetForms(toks, lang) ==
  IF Len(toks) >= 2 /\ Len(StreetTypes(lang, toks[Len(toks)])) > 0
    THEN WithTypes(IF Len(toks) = 2 THEN OrdinalForms(toks[1])
                   ELSE <<UnWords(SubSeq(toks, 1, Len(toks)-1))>>,
                   StreetTypes(lang, toks[Len(toks)]))
  ELSE IF lang = B("fr") /\ Len(toks) >= 2 /\ toks[1] = B("rue")
    THEN <<UnWords(toks), UnWords(SelectSeq(toks, LAMBDA t : t \notin Particles))>>
  ELSE <<UnWords(toks)>>

ExpandStreet(v, lang) == StreetForms(Words(Lower(v)), lang)

\* the words that designate a unit
Designators == Range(BS(<<"apt", "unit", "#">>))

RECURSIVE DropDesignators(_)
\* the words of a unit after its leading designators
DropDesignators(toks) ==
  IF Len(toks) >= 2 /\ toks[1] \in Designators THEN DropDesignators(Tail(toks))
  ELSE toks

\* the forms of a unit of which only the first designator is dropped
UnitFormsOnce(toks) ==
  IF Len(toks) >= 2 /\ toks[1] \in Designators THEN <<UnWords(Tail(toks))>>
  ELSE <<UnWords(toks)>>

\* the forms of a tokenized unit: the designator words are dropped
UnitForms(toks) == <<UnWords(DropDesignators(toks))>>

ExpandUnit(v, lang) == UnitForms(Words(Lower(v)))

\* the forms of a field in one language
Expand(v, role, lang) ==
  IF role = "street" THEN ExpandStreet(v, lang)
  ELSE IF role = "unit" THEN ExpandUnit(v, lang)
  ELSE <<UnWords(Words(Lower(v)))>>

\* VariantSet of one field over the working languages: per-language forms in
\* language order, duplicates collapsed, empty strings dropped
Variants(v, role, langs) ==
  IF Len(v) = 0 \/ ~ValidString(v) THEN <<>>
  ELSE NonEmpty(Dedup(Flatten([i \in 1..Len(langs) |-> Expand(v, role, langs[i])])))

(***************************************************************************)
(* PhoneticEncoder.                                                        *)
(***************************************************************************)
Apostrophe == 39
\* "café"
Cafe == <<99, 97, 102, 195, 169>>

\* sound-alike codes of a word, primary then secondary (the words of the
\* tests' names)
Metaphone(w) ==
  IF w = B("central") THEN <<B("SNTRL")>>
  ELSE IF w = B("atlantic") THEN <<B("ATLNTK")>>
  ELSE IF w = B("park") THEN <<B("KP")>>
  ELSE IF w = B("iv") THEN <<B("AF")>>
  ELSE IF w = B("new") THEN <<B("N"), B("NF")>>
  ELSE IF w = B("york") THEN <<B("ARK")>>
  ELSE IF w = B("6th") THEN <<B("0"), B("T")>>
  ELSE IF w = B("7eleven") THEN <<B("LFN")>>
  ELSE IF w = B("mcdonald's") \/ w = B("mcdonalds") THEN <<B("MKTNLTS")>>
  ELSE IF w = Cafe THEN <<B("KF")>>
  ELSE <<>>

\* sound-alike codes of a whole name of several words
NameMetaphone(ws) ==
  IF ws = <<B("new"), B("york")>> THEN <<B("NRK")>> ELSE <<>>

\* the windows of every text of a list, list order first
AllWindows(ss) == Flatten([i \in 1..Len(ss) |-> Windows(ss[i], 4)])

\* a word without its apostrophes
DeleteApostrophes(w) == SelectSeq(w, LAMBDA c : c # Apostrophe)

\* the normalized forms of one word of a name
WordForms(w, o) ==
  LET forms(l) ==
        IF l = B("park") THEN <<>>
        ELSE IF o.roman_numerals /\ l = B("iv") THEN <<w, B("4")>>
        ELSE IF o.expand_numex /\ l = B("six") THEN <<B("6")>>
        ELSE IF o.split_alpha_from_numeric /\ l = B("6th") THEN <<w, B("6"), B("th")>>
        ELSE IF o.split_alpha_from_numeric /\ l = B("7eleven")
          THEN <<w, SubSeq(w, 1, 1) \o B("-") \o SubSeq(w, 2, Len(w))>>
        ELSE IF l = Cafe THEN <<w, SubSeq(w, 1, 3) \o B("e")>>
        ELSE IF o.delete_apostrophes THEN NonEmpty(<<DeleteApostrophes(w)>>)
        ELSE <<w>>
  IN forms(Lower(w))

\* keys of one word: windows of its phonetic codes, then windows of its forms
WordHashes(w, o) == AllWindows(Metaphone(Lower(w))) \o AllWindows(WordForms(w, o))

\* the keys of a tokenized name: word by word, then the codes of the whole name
NameForms(ws, o) ==
  Dedup(Flatten([i \in 1..Len(ws) |-> WordHashes(ws[i], o)])
        \o NameMetaphone([i \in 1..Len(ws) |-> Lower(ws[i])]))

\* the keys of a name; malformed text has none
NameHashes(name, o) ==
  IF ~ValidString(name) THEN <<>>
  ELSE NameForms(Words(IF o.lowercase THEN Lower(name) ELSE name), o)

\* the options the library hashes the name of an address with
NameDefaults ==
  [lowercase |-> TRUE, roman_numerals |-> TRUE, expand_numex |-> TRUE,
   split_alpha_from_numeric |-> TRUE, delete_apostrophes |-> TRUE]

\* libpostal_near_dupe_name_hashes
near_dupe_name_hashes(cName, cOptions) == NameHashes(cName, cOptions)

(***************************************************************************)
(* GeohashEncoder.  Coordinates are fixed-point, in 1/10000 of a degree.   *)
(***************************************************************************)
DegreeScale == 10000
MaxLatitude == 90 * DegreeScale
MaxLongitude == 180 * DegreeScale
Base32 == B("0123456789bcdefghjkmnpqrstuvwxyz")

RECURSIVE Pow2(_)
Pow2(n) == IF n = 0 THEN 1 ELSE 2 * Pow2(n - 1)

RECURSIVE FracBits(_, _, _)
\* the first n binary digits of a / b (0 <= a <= b), as a number
FracBits(a, b, n) ==
  IF n = 0 THEN 0
  ELSE IF a = b THEN Pow2(n) - 1
  ELSE IF 2 * a >= b THEN Pow2(n - 1) + FracBits(2 * a - b, b, n - 1)
  ELSE FracBits(2 * a, b, n - 1)

LonBits(precision) == (5 * precision + 1) \div 2
LatBits(precision) == (5 * precision) \div 2

\* the bits of a cell, longitude and latitude interleaved, longitude first
CellBits(row, col, precision) ==
  [k \in 0..(5 * precision - 1) |->
     IF k % 2 = 0 THEN (col \div Pow2(LonBits(precision) - 1 - (k \div 2))) % 2
     ELSE (row \div Pow2(LatBits(precision) - 1 - (k \div 2))) % 2]

\* five bits to a base-32 character
Encode32(bits, precision) ==
  [c \in 1..precision |->
     Base32[16 * bits[5*c - 5] + 8 * bits[5*c - 4] + 4 * bits[5*c - 3]
            + 2 * bits[5*c - 2] + bits[5*c - 1] + 1]]

\* the geohash of the cell (row, col) of the grid at a precision
CellCode(row, col, precision) == Encode32(CellBits(row, col, precision), precision)

\* the offsets (rows, columns) of the cell itself and of its 8 neighbours, in
\* the order of the tests' expected keys: self, W, E, S, SW, SE, N, NW, NE
NeighbourOffsets ==
  << <<0, 0>>, <<0, -1>>, <<0, 1>>, <<-1, 0>>, <<-1, -1>>, <<-1, 1>>,
     <<1, 0>>, <<1, -1>>, <<1, 1>> >>

\* the cell and its neighbours on a grid of rows x cols cells: the grid wraps
\* around in longitude, and there is no row beyond a pole
Cells(row, col, rows, cols, precision) ==
  [k \in 1..Len(NeighbourOffsets) |->
     IF row + NeighbourOffsets[k][1] < 0 \/ row + NeighbourOffsets[k][1] >= rows
       THEN <<>>
     ELSE CellCode(row + NeighbourOffsets[k][1],
                   (col + NeighbourOffsets[k][2] + cols) % cols, precision)]

\* VariantSet of geohash cells: empty for precision zero or coordinates out of
\* range
GeohashVariants(lat, lon, precision) ==
  IF \/ precision = 0
     \/ lat > MaxLatitude \/ lat < -MaxLatitude
     \/ lon > MaxLongitude \/ lon < -MaxLongitude
    THEN <<>>
  ELSE NonEmpty(Dedup(Cells(FracBits(lat + MaxLatitude, 2 * MaxLatitude, LatBits(precision)),
                   FracBits(lon + MaxLongitude, 2 * MaxLongitude, LonBits(precision)),
                   Pow2(LatBits(precision)), Pow2(LonBits(precision)), precision)))

(***************************************************************************)
(* HashKeyComposer.                                                        *)
(***************************************************************************)
\* every element of first before every tuple of rest, first slowest
Cross(first, rest) ==
  [k \in 1..(Len(first) * Len(rest)) |->
     <<first[((k-1) \div Len(rest)) + 1]>> \o rest[((k-1) % Len(rest)) + 1]]

RECURSIVE Product(_)
\* the Cartesian product of a sequence of VariantSets: one tuple per
\* combination, the first set varying slowest
Product(sets) ==
  IF Len(sets) = 0 THEN << <<>> >> ELSE Cross(sets[1], Product(Tail(sets)))

\* one key per tuple: type code, then the fields, joined with the separator
Keys(code, combos) == [k \in 1..Len(combos) |-> Join(<<code>> \o combos[k], SEP)]

\* the keys of one shape
ShapeKeys(code, sets) == Keys(B(code), Product(sets))

\* the keys of every enabled shape, from the VariantSets of the roles
Compose(o, names, street, number, unit, city, postcode, geo) ==
  (IF /\ o.name_and_address_keys /\ o.with_address
      /\ Len(street) > 0 /\ Len(number) > 0 /\ Len(names) > 0
     THEN ShapeKeys("nact", <<names, street, number, city>>)
          \o ShapeKeys("napc", <<names, street, number, postcode>>)
   ELSE <<>>)
  \o
  (IF o.address_only_keys /\ o.with_address /\ Len(street) > 0 /\ Len(number) > 0
     THEN IF Len(unit) > 0
            THEN ShapeKeys("auct", <<street, number, unit, city>>)
                 \o ShapeKeys("aupc", <<street, number, unit, postcode>>)
          ELSE ShapeKeys("agh", <<street, number, geo>>)
               \o ShapeKeys("act", <<street, number, city>>)
               \o ShapeKeys("apc", <<street, number, postcode>>)
   ELSE <<>>)

\* the VariantSet of the field with a label when its axis is enabled
Axis(enabled, labels, values, label, role, langs) ==
  IF enabled THEN Variants(Field(labels, values, B(label)), role, langs) ELSE <<>>

\* libpostal_near_dupe_hashes_languages: the keys of every enabled shape
near_dupe_hashes_languages(labels, values, o, langs) ==
  Compose(o,
    IF o.with_name THEN NameHashes(Field(labels, values, B("house")), NameDefaults) ELSE <<>>,
    Axis(TRUE, labels, values, "road", "street", langs),
    Axis(TRUE, labels, values, "house_number", "number", langs),
    Axis(o.with_unit, labels, values, "unit", "unit", langs),
    \* the tests expect the suburb among the city equivalents
    Dedup(Axis(o.with_city_or_equivalent, labels, values, "city", "city", langs)
          \o Axis(o.with_city_or_equivalent, labels, values, "suburb", "city", langs)),
    Axis(o.with_postal_code, labels, values, "postcode", "postcode", langs),
    IF o.with_latlon
      THEN GeohashVariants(o.latitude, o.longitude, o.geohash_precision) ELSE <<>>)

\* libpostal_near_dupe_hashes: the detector determines the languages
near_dupe_hashes(labels, values, o) ==
  near_dupe_hashes_languages(labels, values, o, place_languages(labels, values))

(***************************************************************************)
(* What the tests of the package expect.                                   *)
(***************************************************************************)
NoHashOptions ==
  [WithName |-> FALSE, WithAddress |-> FALSE, WithUnit |-> FALSE,
   WithCityOrEquivalent |-> FALSE, WithSmallContainingBoundaries |-> FALSE,
   WithPostalCode |-> FALSE, WithLatlon |-> FALSE, Latitude |-> 0,
   Longitude |-> 0, GeohashPrecision |-> 0, NameAndAddressKeys |-> FALSE,
   NameOnlyKeys |-> FALSE, AddressOnlyKeys |-> FALSE]

AddressOptions ==
  [NoHashOptions EXCEPT !.WithAddress = TRUE, !.WithCityOrEquivalent = TRUE,
                        !.WithPostalCode = TRUE, !.AddressOnlyKeys = TRUE]

TestAddressWithoutUnit ==
  [labels |-> BS(<<"house_number", "road", "city", "state", "postcode">>),
   values |-> BS(<<"42", "Main St", "Portland", "OR", "97201">>),
   options |-> AddressOptions,
   expected |-> BS(<<"act|main saint|42|portland", "act|main street|42|portland",
                     "act|main|42|portland", "apc|main saint|42|97201",
                     "apc|main street|42|97201", "apc|main|42|97201">>)]

TestFullAddressWithUnit ==
  [labels |-> BS(<<"house_number", "road", "unit", "city", "state", "postcode">>),
   values |-> BS(<<"23", "School St", "Apt 3", "Brunswick", "ME", "04011">>),
   options |-> [AddressOptions EXCEPT !.WithUnit = TRUE],
   expected |-> BS(<<"auct|school saint|23|3|brunswick",
                     "auct|school street|23|3|brunswick",
                     "auct|school|23|3|brunswick",
                     "aupc|school saint|23|3|04011",
                     "aupc|school street|23|3|04011",
                     "aupc|school|23|3|04011">>)]

TestAddressWithName ==
  [labels |-> BS(<<"house", "house_number", "road", "city", "state", "postcode">>),
   values |-> BS(<<"Central Park", "1", "Park Ave", "New York", "NY", "10022">>),
   options |-> [NoHashOptions EXCEPT !.WithName = TRUE, !.WithAddress = TRUE,
                  !.WithCityOrEquivalent = TRUE, !.WithPostalCode = TRUE,
                  !.NameAndAddressKeys = TRUE],
   expected |-> BS(<<
     "nact|SNTR|park avenue|1|new york", "nact|SNTR|park|1|new york",
     "nact|NTRL|park avenue|1|new york", "nact|NTRL|park|1|new york",
     "nact|cent|park avenue|1|new york", "nact|cent|park|1|new york",
     "nact|entr|park avenue|1|new york", "nact|entr|park|1|new york",
     "nact|ntra|park avenue|1|new york", "nact|ntra|park|1|new york",
     "nact|tral|park avenue|1|new york", "nact|tral|park|1|new york",
     "nact|KP|park avenue|1|new york", "nact|KP|park|1|new york",
     "napc|SNTR|park avenue|1|10022", "napc|SNTR|park|1|10022",
     "napc|NTRL|park avenue|1|10022", "napc|NTRL|park|1|10022",
     "napc|cent|park avenue|1|10022", "napc|cent|park|1|10022",
     "napc|entr|park avenue|1|10022", "napc|entr|park|1|10022",
     "napc|ntra|park avenue|1|10022", "napc|ntra|park|1|10022",
     "napc|tral|park avenue|1|10022", "napc|tral|park|1|10022",
     "napc|KP|park avenue|1|10022", "napc|KP|park|1|10022">>)]

TestAddressWithGeohash ==
  [labels |-> BS(<<"house_number", "road", "city", "state", "postcode">>),
   values |-> BS(<<"350", "5th Ave", "New York", "NY", "10118">>),
   options |-> [NoHashOptions EXCEPT !.WithAddress = TRUE,
                  !.WithCityOrEquivalent = TRUE, !.WithLatlon = TRUE,
                  !.Latitude = 407484, !.Longitude = -739857,
                  !.GeohashPrecision = 6, !.AddressOnlyKeys = TRUE],
   expected |-> BS(<<
     "agh|5th avenue|350|dr5ru6", "agh|5th avenue|350|dr5ru4",
     "agh|5th avenue|350|dr5rud", "agh|5th avenue|350|dr5ru3",
     "agh|5th avenue|350|dr5ru1", "agh|5th avenue|350|dr5ru9",
     "agh|5th avenue|350|dr5ru7", "agh|5th avenue|350|dr5ru5",
     "agh|5th avenue|350|dr5rue",
     "agh|5 avenue|350|dr5ru6", "agh|5 avenue|350|dr5ru4",
     "agh|5 avenue|350|dr5rud", "agh|5 avenue|350|dr5ru3",
     "agh|5 avenue|350|dr5ru1", "agh|5 avenue|350|dr5ru9",
     "agh|5 avenue|350|dr5ru7", "agh|5 avenue|350|dr5ru5",
     "agh|5 avenue|350|dr5rue",
     "agh|5th|350|dr5ru6", "agh|5th|350|dr5ru4", "agh|5th|350|dr5rud",
     "agh|5th|350|dr5ru3", "agh|5th|350|dr5ru1", "agh|5th|350|dr5ru9",
     "agh|5th|350|dr5ru7", "agh|5th|350|dr5ru5", "agh|5th|350|dr5rue",
     "agh|5|350|dr5ru6", "agh|5|350|dr5ru4", "agh|5|350|dr5rud",
     "agh|5|350|dr5ru3", "agh|5|350|dr5ru1", "agh|5|350|dr5ru9",
     "agh|5|350|dr5ru7", "agh|5|350|dr5ru5", "agh|5|350|dr5rue",
     "act|5th avenue|350|new york", "act|5 avenue|350|new york",
     "act|5th|350|new york", "act|5|350|new york">>)]

TestFrenchAddress ==
  [labels |-> BS(<<"house_number", "road", "city", "postcode">>),
   values |-> BS(<<"15", "Rue de la Paix", "Paris", "75002">>),
   options |-> AddressOptions,
   languages |-> BS(<<"fr">>),
   expected |-> BS(<<"act|rue de la paix|15|paris", "act|paix|15|paris",
                     "apc|rue de la paix|15|75002", "apc|paix|15|75002">>)]

TestNearDupeHashes ==
  <<TestFullAddressWithUnit, TestAddressWithoutUnit, TestAddressWithName,
    TestAddressWithGeohash>>
(***************************************************************************)
(* The binding: conversions between Go and C values.                       *)
(***************************************************************************)
NUL == 0

\* C.CString: the bytes of the Go string, then the terminator
CString(s) == Append(s, NUL)

\* what C reads of a string: the bytes before the first terminator
strz(c) ==
  IF \A i \in 1..Len(c) : c[i] # NUL THEN c
  ELSE SubSeq(c, 1, (CHOOSE i \in 1..Len(c) :
                       c[i] = NUL /\ \A j \in 1..(i-1) : c[j] # NUL) - 1)

\* the first byte of a C string
GoStringFirst(c) == SubSeq(strz(c), 1, 1)

\* C.GoString: the bytes before the terminator
GoString(c) == strz(c)

\* the loop that copies the first n strings of a Go slice to C memory
CStrings(ss, n) == [i \in 1..n |-> CString(ss[i])]

\* a char** the library returns
CArray(ss) == [i \in 1..Len(ss) |-> CString(ss[i])]

\* the strings the library reads from a char**
ReadStrings(cs) == [i \in 1..Len(cs) |-> strz(cs[i])]

\* the conversion, reading the array from its end
cStringArrayFromEnd(cArray, arraySize) ==
  [i \in 1..arraySize |-> GoString(cArray[arraySize + 1 - i])]

\* the strings of a C array, starting with the second and ending with the first
cStringArrayRotated(cArray, arraySize) ==
  [i \in 1..arraySize |-> GoString(cArray[(i % arraySize) + 1])]

\* the conversion, reading the first string of the array at every index
cStringArrayFirst(cArray, arraySize) ==
  [i \in 1..arraySize |-> GoString(cArray[1])]

cStringArrayToStringSlice(cArray, arraySize) ==
  [i \in 1..arraySize |-> GoString(cArray[i])]

\* the options with latitude and longitude exchanged
cHashOptionsSwapped(options) ==
  [with_name |-> options.WithName,
   with_address |-> options.WithAddress,
   with_unit |-> options.WithUnit,
   with_city_or_equivalent |-> options.WithCityOrEquivalent,
   with_small_containing_boundaries |-> options.WithSmallContainingBoundaries,
   with_postal_code |-> options.WithPostalCode,
   with_latlon |-> options.WithLatlon,
   latitude |-> options.Longitude,
   longitude |-> options.Latitude,
   geohash_precision |-> options.GeohashPrecision,
   name_and_address_keys |-> options.NameAndAddressKeys,
   name_only_keys |-> options.NameOnlyKeys,
   address_only_keys |-> options.AddressOnlyKeys]

\* the options with a precision of zero replaced by the default precision
cHashOptionsDefaulted(options) ==
  [with_name |-> options.WithName,
   with_address |-> options.WithAddress,
   with_unit |-> options.WithUnit,
   with_city_or_equivalent |-> options.WithCityOrEquivalent,
   with_small_containing_boundaries |-> options.WithSmallContainingBoundaries,
   with_postal_code |-> options.WithPostalCode,
   with_latlon |-> options.WithLatlon,
   latitude |-> options.Latitude,
   longitude |-> options.Longitude,
   geohash_precision |-> IF options.GeohashPrecision = 0 THEN 6 ELSE options.GeohashPrecision,
   name_and_address_keys |-> options.NameAndAddressKeys,
   name_only_keys |-> options.NameOnlyKeys,
   address_only_keys |-> options.AddressOnlyKeys]

\* the options with the unit axis always enabled
cHashOptionsWithUnit(options) ==
  [with_name |-> options.WithName,
   with_address |-> options.WithAddress,
   with_unit |-> TRUE,
   with_city_or_equivalent |-> options.WithCityOrEquivalent,
   with_small_containing_boundaries |-> options.WithSmallContainingBoundaries,
   with_postal_code |-> options.WithPostalCode,
   with_latlon |-> options.WithLatlon,
   latitude |-> options.Latitude,
   longitude |-> options.Longitude,
   geohash_precision |-> options.GeohashPrecision,
   name_and_address_keys |-> options.NameAndAddressKeys,
   name_only_keys |-> options.NameOnlyKeys,
   address_only_keys |-> options.AddressOnlyKeys]

\* the near-dupe hash options handed to the library
cHashOptions(options) ==
  [with_name |-> options.WithName,
   with_address |-> options.WithAddress,
   with_unit |-> options.WithUnit,
   with_city_or_equivalent |-> options.WithCityOrEquivalent,
   with_small_containing_boundaries |-> options.WithSmallContainingBoundaries,
   with_postal_code |-> options.WithPostalCode,
   with_latlon |-> options.WithLatlon,
   latitude |-> options.Latitude,
   longitude |-> options.Longitude,
   geohash_precision |-> options.GeohashPrecision,
   name_and_address_keys |-> options.NameAndAddressKeys,
   name_only_keys |-> options.NameOnlyKeys,
   address_only_keys |-> options.AddressOnlyKeys]

\* the normalize options without the caller's lowercase flag
cNormalizeOptionsNoLowercase(options) ==
  [languages |-> CStrings(options.Languages, Len(options.Languages)),
   num_languages |-> Len(options.Languages),
   address_components |-> options.AddressComponents,
   latin_ascii |-> options.LatinAscii,
   transliterate |-> options.Transliterate,
   strip_accents |-> options.StripAccents,
   decompose |-> options.Decompose,
   lowercase |-> FALSE,
   trim_string |-> options.TrimString,
   replace_word_hyphens |-> options.ReplaceWordHyphens,
   delete_word_hyphens |-> options.DeleteWordHyphens,
   replace_numeric_hyphens |-> options.ReplaceNumericHyphens,
   delete_numeric_hyphens |-> options.DeleteNumericHyphens,
   split_alpha_from_numeric |-> options.SplitAlphaFromNumeric,
   delete_final_periods |-> options.DeleteFinalPeriods,
   delete_acronym_periods |-> options.DeleteAcronymPeriods,
   drop_english_possessives |-> options.DropEnglishPossessives,
   delete_apostrophes |-> options.DeleteApostrophes,
   expand_numex |-> options.ExpandNumex,
   roman_numerals |-> options.RomanNumerals]

\* the normalize options handed to the library
cNormalizeOptions(options) ==
  [languages |-> CStrings(options.Languages, Len(options.Languages)),
   num_languages |-> Len(options.Languages),
   address_components |-> options.AddressComponents,
   latin_ascii |-> options.LatinAscii,
   transliterate |-> options.Transliterate,
   strip_accents |-> options.StripAccents,
   decompose |-> options.Decompose,
   lowercase |-> options.Lowercase,
   trim_string |-> options.TrimString,
   replace_word_hyphens |-> options.ReplaceWordHyphens,
   delete_word_hyphens |-> options.DeleteWordHyphens,
   replace_numeric_hyphens |-> options.ReplaceNumericHyphens,
   delete_numeric_hyphens |-> options.DeleteNumericHyphens,
   split_alpha_from_numeric |-> options.SplitAlphaFromNumeric,
   delete_final_periods |-> options.DeleteFinalPeriods,
   delete_acronym_periods |-> options.DeleteAcronymPeriods,
   drop_english_possessives |-> options.DropEnglishPossessives,
   delete_apostrophes |-> options.DeleteApostrophes,
   expand_numex |-> options.ExpandNumex,
   roman_numerals |-> options.RomanNumerals]

\* LIBPOSTAL_NEAR_DUPE_HASH_DEFAULT_OPTIONS
DefaultGeohashPrecision == 6

GetDefaultNearDupeHashOptions ==
  [WithName |-> TRUE, WithAddress |-> TRUE, WithUnit |-> FALSE,
   WithCityOrEquivalent |-> TRUE, WithSmallContainingBoundaries |-> TRUE,
   WithPostalCode |-> TRUE, WithLatlon |-> FALSE, Latitude |-> 0,
   Longitude |-> 0, GeohashPrecision |-> DefaultGeohashPrecision,
   NameAndAddressKeys |-> TRUE, NameOnlyKeys |-> FALSE,
   AddressOnlyKeys |-> FALSE]

\* the zero value of NormalizeOptions
ZeroNormalizeOptions ==
  [Languages |-> <<>>, AddressComponents |-> 0, LatinAscii |-> FALSE,
   Transliterate |-> FALSE, StripAccents |-> FALSE, Decompose |-> FALSE,
   Lowercase |-> FALSE, TrimString |-> FALSE, ReplaceWordHyphens |-> FALSE,
   DeleteWordHyphens |-> FALSE, ReplaceNumericHyphens |-> FALSE,
   DeleteNumericHyphens |-> FALSE, SplitAlphaFromNumeric |-> FALSE,
   DeleteFinalPeriods |-> FALSE, DeleteAcronymPeriods |-> FALSE,
   DropEnglishPossessives |-> FALSE, DeleteApostrophes |-> FALSE,
   ExpandNumex |-> FALSE, RomanNumerals |-> FALSE]

\* the library's default normalize options, as GetDefaultNormalizeOptions
\* copies them
GetDefaultNormalizeOptions ==
  [ZeroNormalizeOptions EXCEPT
     !.LatinAscii = TRUE, !.Transliterate = TRUE, !.StripAccents = TRUE,
     !.Decompose = TRUE, !.Lowercase = TRUE, !.TrimString = TRUE,
     !.ReplaceWordHyphens = TRUE, !.DeleteWordHyphens = TRUE,
     !.SplitAlphaFromNumeric = TRUE, !.DeleteFinalPeriods = TRUE,
     !.DeleteAcronymPeriods = TRUE, !.DropEnglishPossessives = TRUE,
     !.DeleteApostrophes = TRUE, !.ExpandNumex = TRUE, !.RomanNumerals = TRUE]

(***************************************************************************)
(* The library's entry points, on C values.                                *)
(***************************************************************************)
libpostal_near_dupe_hashes_languages(cLabels, cValues, cOptions, cLanguages) ==
  CArray(near_dupe_hashes_languages(ReadStrings(cLabels), ReadStrings(cValues),
                                    cOptions, ReadStrings(cLanguages)))

libpostal_near_dupe_hashes(cLabels, cValues, cOptions) ==
  CArray(near_dupe_hashes(ReadStrings(cLabels), ReadStrings(cValues), cOptions))

libpostal_place_languages(cLabels, cValues) ==
  CArray(place_languages(ReadStrings(cLabels), ReadStrings(cValues)))

libpostal_near_dupe_name_hashes(cName, cOptions) ==
  CArray(near_dupe_name_hashes(strz(cName), cOptions))

(***************************************************************************)
(* State of the process.                                                   *)
(***************************************************************************)
Goroutines == 1..NumGoroutines

VARIABLES
  phase,       \* "start" before func init, then "ready", "fatal" or "crashed"
  setupCalls,  \* how often each setup function of the library has been called
  resources,   \* the library's tables and its language classifier
  mu,          \* the goroutine holding the mutex, 0 when it is free
  pc,          \* where each goroutine is in its call
  fn,          \* the entry point each goroutine is in, or last was in
  args,        \* the arguments of that call
  cmem,        \* the C copies of the arguments made for the call
  cres,        \* the array the library handed back to the call, and its strings
  native,      \* the library function each goroutine is inside
  ran,         \* whether the call entered the library, and on what resources
  ret          \* what the call returned

vars == <<phase, setupCalls, resources, mu, pc, fn, args, cmem, cres, native, ran, ret>>

NoArgs == [labels |-> <<>>, values |-> <<>>, options |-> <<>>, languages |-> <<>>,
           name |-> <<>>]
NoMem == [labels |-> <<>>, values |-> <<>>, languages |-> <<>>, name |-> <<>>,
          live |-> FALSE]
\* live: the array is allocated; strings: how many of its strings still are
NoRes == [array |-> <<>>, n |-> 0, live |-> FALSE, strings |-> 0]
NoReturn == [kind |-> "none", items |-> <<>>]
NilSlice == [kind |-> "nil", items |-> <<>>]
\* a slice built by appending: nil when nothing was appended
SliceOrNil(items) ==
  IF Len(items) = 0 THEN NilSlice ELSE [kind |-> "slice", items |-> items]

\* make([]string, n), filled: not nil even when n is 0
Slice(items) == [kind |-> "slice", items |-> items]

Loaded == resources.lib = "loaded" /\ resources.classifier = "loaded"

Init ==
  /\ phase = "start"
  /\ setupCalls = [setup |-> 0, classifier |-> 0]
  /\ resources = [lib |-> "unloaded", classifier |-> "unloaded"]
  /\ mu = 0
  /\ pc = [g \in Goroutines |-> "idle"]
  /\ fn = [g \in Goroutines |-> "none"]
  /\ args = [g \in Goroutines |-> NoArgs]
  /\ cmem = [g \in Goroutines |-> NoMem]
  /\ cres = [g \in Goroutines |-> NoRes]
  /\ native = [g \in Goroutines |-> "none"]
  /\ ran = [g \in Goroutines |-> "no"]
  /\ ret = [g \in Goroutines |-> NoReturn]

(***************************************************************************)
(* func init: load the library, abort the process when that fails.         *)
(***************************************************************************)
\* a start that goes on whatever the setups returned
AlwaysReady(okSetup, okClassifier) == "ready"

\* log.Fatal unless both setups succeeded
InitOutcome(okSetup, okClassifier) ==
  IF okSetup /\ okClassifier THEN "ready" ELSE "fatal"

\* setup(), then setup_language_classifier() unless setup() failed
PackageInit ==
  /\ phase = "start"
  /\ \E okSetup, okClassifier \in BOOLEAN :
       /\ setupCalls' = [setup |-> setupCalls.setup + 1,
                         classifier |-> setupCalls.classifier
                                          + (IF okSetup THEN 1 ELSE 0)]
       /\ resources' = [lib |-> IF okSetup THEN "loaded" ELSE "unloaded",
                        classifier |-> IF okSetup /\ okClassifier
                                         THEN "loaded" ELSE "unloaded"]
       /\ phase' = InitOutcome(okSetup, okClassifier)
  /\ UNCHANGED <<mu, pc, fn, args, cmem, cres, native, ran, ret>>

(***************************************************************************)
(* Calls of the exported functions.                                        *)
(***************************************************************************)
Enter(g, f, a) ==
  /\ phase = "ready"
  /\ pc[g] = "idle"
  /\ fn' = [fn EXCEPT ![g] = f]
  /\ args' = [args EXCEPT ![g] = a]
  /\ pc' = [pc EXCEPT ![g] = "entry"]
  /\ ran' = [ran EXCEPT ![g] = "no"]
  /\ ret' = [ret EXCEPT ![g] = NoReturn]
  /\ cmem' = [cmem EXCEPT ![g] = NoMem]
  /\ cres' = [cres EXCEPT ![g] = NoRes]
  /\ UNCHANGED <<phase, setupCalls, resources, mu, native>>

NearDupeNameOptions(g, W) ==
  \E name \in W.names, options \in W.normalize :
    Enter(g, "NearDupeNameOptions", [NoArgs EXCEPT !.name = name, !.options = options])

NearDupeNames(g, W) ==
  \E name \in W.names :
    Enter(g, "NearDupeNameOptions",
          [NoArgs EXCEPT !.name = name, !.options = GetDefaultNormalizeOptions])

NearDupeOptions(g, W) ==
  \E c \in W.components, options \in W.options, languages \in W.languages :
    Enter(g, "NearDupeOptions",
          [NoArgs EXCEPT !.labels = c.labels, !.values = c.values,
                         !.options = options, !.languages = languages])

NearDupe(g, W) ==
  \E c \in W.components, options \in W.options :
    Enter(g, "NearDupeOptions",
          [NoArgs EXCEPT !.labels = c.labels, !.values = c.values,
                         !.options = options])

NearDupeDefaultOptions(g, W) ==
  \E c \in W.components :
    Enter(g, "NearDupeOptions",
          [NoArgs EXCEPT !.labels = c.labels, !.values = c.values,
                         !.options = GetDefaultNearDupeHashOptions])

NearDupeLanguages(g, W) ==
  \E c \in W.components, options \in W.options, languages \in W.languages :
    Enter(g, "NearDupeOptions",
          [NoArgs EXCEPT !.labels = c.labels, !.values = c.values,
                         !.options = options, !.languages = languages])

PlaceLanguages(g, W) ==
  \E c \in W.components :
    Enter(g, "PlaceLanguages",
          [NoArgs EXCEPT !.labels = c.labels, !.values = c.values])

NearDupeTeardown(g) ==
  Enter(g, "NearDupeTeardown", NoArgs)

(***************************************************************************)
(* The steps of a call.                                                    *)
(***************************************************************************)
\* a guard that only asks for a value under every label
FewerValues(labels, values) == Len(labels) > Len(values)

\* a guard that lets every name pass
NeverInvalid(name) == FALSE

\* the guards evaluated before the mutex is taken
NearDupeNameOptions_Invalid(name) == ~ValidString(name)
NearDupeOptions_Mismatch(labels, values) == Len(labels) # Len(values)
PlaceLanguages_Mismatch(labels, values) == Len(labels) # Len(values)

\* guards that also turn away a call without components before the mutex is
\* taken
RejectedOrEmpty(f, a) ==
  IF f = "NearDupeNameOptions" THEN ~ValidString(a.name)
  ELSE IF f \in {"NearDupeOptions", "PlaceLanguages"}
    THEN Len(a.labels) # Len(a.values) \/ Len(a.labels) = 0
  ELSE FALSE

Rejected(f, a) ==
  IF f = "NearDupeNameOptions" THEN NearDupeNameOptions_Invalid(a.name)
  ELSE IF f = "NearDupeOptions" THEN NearDupeOptions_Mismatch(a.labels, a.values)
  ELSE IF f = "PlaceLanguages" THEN PlaceLanguages_Mismatch(a.labels, a.values)
  ELSE FALSE

\* return nil before locking, or go on to mu.Lock()
Guard(g) ==
  /\ phase = "ready"
  /\ pc[g] = "entry"
  /\ IF Rejected(fn[g], args[g])
       THEN /\ ret' = [ret EXCEPT ![g] = NilSlice]
            /\ pc' = [pc EXCEPT ![g] = "idle"]
       ELSE /\ pc' = [pc EXCEPT ![g] = "lock"]
            /\ UNCHANGED ret
  /\ UNCHANGED <<phase, setupCalls, resources, mu, fn, args, cmem, cres, native, ran>>

\* a lock that is granted at once
NeverWaits(g) == TRUE

\* sync.Mutex: Lock returns once the mutex is free
CanLock(g) == mu = 0

Lock(g) ==
  /\ phase = "ready"
  /\ pc[g] = "lock"
  /\ CanLock(g)
  /\ mu' = g
  /\ pc' = [pc EXCEPT ![g] = "locked"]
  /\ UNCHANGED <<phase, setupCalls, resources, fn, args, cmem, cres, native, ran, ret>>

\* the deferred mu.Unlock()
Unlock(g) == IF mu = g THEN 0 ELSE mu

\* numComponents == 0, checked under the lock
NoComponents(f, a) == f \in {"NearDupeOptions", "PlaceLanguages"} /\ Len(a.labels) = 0

\* a branch that never hands the caller's languages on
NeverUseLanguages(languages) == FALSE

\* the branch that hands the caller's languages to the library
UseLanguages(languages) == Len(languages) > 0

\* copies that pair each label with the value at the mirrored index
CopiesMirrored(f, a) ==
  [NoMem EXCEPT !.name = CString(a.name),
                !.labels = CStrings(a.labels, Len(a.labels)),
                !.values = [i \in 1..Len(a.labels) |->
                              CString(a.values[Len(a.labels) + 1 - i])],
                !.languages = CStrings(a.languages, Len(a.languages)),
                !.live = TRUE]

\* the C copies an entry point makes of its arguments
Copies(f, a) ==
  IF f = "NearDupeNameOptions"
    THEN [NoMem EXCEPT !.name = CString(a.name),
                       !.languages = cNormalizeOptions(a.options).languages,
                       !.live = TRUE]
  ELSE [NoMem EXCEPT
          !.labels = CStrings(a.labels, Len(a.labels)),
          !.values = CStrings(a.values, Len(a.labels)),
          !.languages = IF f = "NearDupeOptions" /\ UseLanguages(a.languages)
                          THEN CStrings(a.languages, Len(a.languages))
                        ELSE <<>>,
          !.live = TRUE]

\* after mu.Lock(): the empty-input return, or the copies of the arguments;
\* indexing values beyond its length panics
Prepare(g) ==
  /\ phase = "ready"
  /\ pc[g] = "locked"
  /\ fn[g] # "NearDupeTeardown"
  /\ IF NoComponents(fn[g], args[g])
       THEN /\ ret' = [ret EXCEPT ![g] = NilSlice]
            /\ pc' = [pc EXCEPT ![g] = "idle"]
            /\ mu' = Unlock(g)
            /\ UNCHANGED <<phase, cmem>>
     ELSE IF fn[g] # "NearDupeNameOptions" /\ Len(args[g].values) < Len(args[g].labels)
       THEN /\ phase' = "crashed"
            /\ UNCHANGED <<ret, pc, mu, cmem>>
     ELSE /\ cmem' = [cmem EXCEPT ![g] = Copies(fn[g], args[g])]
          /\ pc' = [pc EXCEPT ![g] = "call"]
          /\ UNCHANGED <<phase, ret, mu>>
  /\ UNCHANGED <<setupCalls, resources, fn, args, cres, native, ran>>

\* the library function an entry point calls
NativeFunction(f, a) ==
  IF f = "NearDupeNameOptions" THEN "libpostal_near_dupe_name_hashes"
  ELSE IF f = "PlaceLanguages" THEN "libpostal_place_languages"
  ELSE IF UseLanguages(a.languages) THEN "libpostal_near_dupe_hashes_languages"
  ELSE "libpostal_near_dupe_hashes"

\* what that function computes from the C copies, with its resources loaded
NativeResult(f, a, mem) ==
  IF f = "NearDupeNameOptions"
    THEN libpostal_near_dupe_name_hashes(mem.name, cNormalizeOptions(a.options))
  ELSE IF f = "PlaceLanguages"
    THEN libpostal_place_languages(mem.labels, mem.values)
  ELSE IF UseLanguages(a.languages)
    THEN libpostal_near_dupe_hashes_languages(mem.labels, mem.values,
                                              cHashOptions(a.options), mem.languages)
  ELSE libpostal_near_dupe_hashes(mem.labels, mem.values, cHashOptions(a.options))

\* an array the library hands back, with its length: the array and each of
\* its strings are allocated by the library and owned by the caller
Returned(array) ==
  [array |-> array, n |-> Len(array), live |-> TRUE, strings |-> Len(array)]

\* control enters the library
NativeCall(g) ==
  /\ phase = "ready"
  /\ pc[g] = "call"
  /\ native' = [native EXCEPT ![g] = NativeFunction(fn[g], args[g])]
  /\ ran' = [ran EXCEPT ![g] = IF Loaded THEN "loaded" ELSE "released"]
  /\ pc' = [pc EXCEPT ![g] = "native"]
  /\ UNCHANGED <<phase, setupCalls, resources, mu, fn, args, cmem, cres, ret>>

\* the library returns its array.  On released resources its behaviour is
\* undefined: it may stop the process, find nothing, or produce keys from
\* memory it has freed.
NativeReturn(g) ==
  /\ phase = "ready"
  /\ pc[g] = "native"
  /\ fn[g] # "NearDupeTeardown"
  /\ \/ /\ \E computed \in BOOLEAN :
             /\ Loaded => computed
             /\ cres' = [cres EXCEPT ![g] =
                           IF computed
                             THEN Returned(NativeResult(fn[g], args[g], cmem[g]))
                           ELSE Returned(<<>>)]
        /\ native' = [native EXCEPT ![g] = "none"]
        /\ pc' = [pc EXCEPT ![g] = "convert"]
        /\ UNCHANGED phase
     \/ /\ ~Loaded
        /\ phase' = "crashed"
        /\ UNCHANGED <<cres, native, pc>>
  /\ UNCHANGED <<setupCalls, resources, mu, fn, args, cmem, ran, ret>>

\* a Go slice without the strings of the library's array
ConvertNone(res) == Slice(<<>>)

\* the Go slice made of the library's array
Convert(res) == Slice(cStringArrayToStringSlice(res.array, res.n))

\* deferred calls that run first registered first: mu.Unlock(), then the frees
DeferredInOrder(at) ==
  IF at = "convert" THEN "unlock"
  ELSE IF at = "unlock" THEN "free"
  ELSE "idle"

\* the deferred calls run last registered first, after the return value has
\* been computed: the frees, then mu.Unlock(), which was deferred first
Deferred(at) ==
  IF at = "convert" THEN "free"
  ELSE IF at = "free" THEN "unlock"
  ELSE "idle"

\* the return expression: copy the result to a Go slice
ConvertResult(g) ==
  /\ phase = "ready"
  /\ pc[g] = "convert"
  /\ ret' = [ret EXCEPT ![g] = Convert(cres[g])]
  /\ pc' = [pc EXCEPT ![g] = Deferred("convert")]
  /\ UNCHANGED <<phase, setupCalls, resources, mu, fn, args, cmem, cres, native, ran>>

\* C.free of the array: its strings stay allocated
FreeArray(res) == [res EXCEPT !.live = FALSE]

\* the deferred frees: the array the library returned, the copies of the
\* arguments
Free(g) ==
  /\ phase = "ready"
  /\ pc[g] = "free"
  /\ cres' = [cres EXCEPT ![g] = FreeArray(cres[g])]
  /\ cmem' = [cmem EXCEPT ![g] = NoMem]
  /\ pc' = [pc EXCEPT ![g] = Deferred("free")]
  /\ UNCHANGED <<phase, setupCalls, resources, mu, fn, args, native, ran, ret>>

\* the deferred unlock, and the return to the caller
Return(g) ==
  /\ phase = "ready"
  /\ pc[g] = "unlock"
  /\ mu' = Unlock(g)
  /\ pc' = [pc EXCEPT ![g] = Deferred("unlock")]
  /\ UNCHANGED <<phase, setupCalls, resources, fn, args, cmem, cres, native, ran, ret>>

\* what a call returns when the library's resources are loaded
Result(f, a) ==
  IF Rejected(f, a) \/ NoComponents(f, a) THEN NilSlice
  ELSE Convert(Returned(NativeResult(f, a, Copies(f, a))))

(***************************************************************************)
(* NearDupeTeardown, under the lock.                                       *)
(***************************************************************************)
TeardownLibrary(g) ==
  /\ phase = "ready"
  /\ pc[g] = "locked"
  /\ fn[g] = "NearDupeTeardown"
  /\ native' = [native EXCEPT ![g] = "libpostal_teardown"]
  /\ resources' = [resources EXCEPT !.lib = "released"]
  /\ pc' = [pc EXCEPT ![g] = "native"]
  /\ UNCHANGED <<phase, setupCalls, mu, fn, args, cmem, cres, ran, ret>>

TeardownClassifier(g) ==
  /\ phase = "ready"
  /\ pc[g] = "native"
  /\ native[g] = "libpostal_teardown"
  /\ native' = [native EXCEPT ![g] = "libpostal_teardown_language_classifier"]
  /\ resources' = [resources EXCEPT !.classifier = "released"]
  /\ UNCHANGED <<phase, setupCalls, mu, pc, fn, args, cmem, cres, ran, ret>>

TeardownReturn(g) ==
  /\ phase = "ready"
  /\ pc[g] = "native"
  /\ native[g] = "libpostal_teardown_language_classifier"
  /\ native' = [native EXCEPT ![g] = "none"]
  /\ mu' = Unlock(g)
  /\ pc' = [pc EXCEPT ![g] = "idle"]
  /\ UNCHANGED <<phase, setupCalls, resources, fn, args, cmem, cres, ran, ret>>

(***************************************************************************)
(* The callers.                                                            *)
(***************************************************************************)
\* the components of c, supplied in another order
Permuted(c, order) ==
  [labels |-> [i \in 1..Len(order) |-> c.labels[order[i]]],
   values |-> [i \in 1..Len(order) |-> c.values[order[i]]]]

Components(t) == [labels |-> t.labels, values |-> t.values]

MainStreet ==
  [labels |-> BS(<<"house_number", "road", "city", "postcode">>),
   values |-> BS(<<"42", "Main St", "Portland", "97201">>)]

\* a city and a country in Han script
Tokyo ==
  [labels |-> BS(<<"city", "country">>),
   values |-> << <<230, 157, 177, 228, 186, 172, 233, 131, 189>>, Nihon >>]

NoComponentsAtAll == [labels |-> <<>>, values |-> <<>>]
MoreValues == [labels |-> BS(<<"road">>), values |-> BS(<<"Main St", "42">>)]
MoreLabels == [labels |-> BS(<<"road", "city">>), values |-> BS(<<"Main St">>)]

\* what concurrent callers pass
Concurrent ==
  [components |-> {Permuted(MainStreet, <<1, 2, 3>>), NoComponentsAtAll},
   options |-> {AddressOptions},
   languages |-> {<<>>},
   names |-> {B("IV"), <<195, 40>>},
   normalize |-> {GetDefaultNormalizeOptions}]

\* what one caller passes, call after call
Sequential ==
  [components |->
     {Permuted(MainStreet, o) :
        o \in {<<1, 2, 3, 4>>, <<2, 1, 4, 3>>, <<4, 3, 2, 1>>, <<3, 1, 2>>}}
     \cup {Permuted(Components(TestFrenchAddress), o) :
             o \in {<<1, 2, 3, 4>>, <<3, 4, 2, 1>>}}
     \cup {Permuted(Tokyo, o) : o \in {<<1, 2>>, <<2, 1>>}}
     \cup {Components(TestNearDupeHashes[i]) : i \in 1..Len(TestNearDupeHashes)}
     \cup {NoComponentsAtAll, MoreValues, MoreLabels},
   options |-> {TestNearDupeHashes[i].options : i \in 1..Len(TestNearDupeHashes)},
   languages |-> {<<>>, BS(<<"en">>), BS(<<"fr">>), BS(<<"fr", "en">>)},
   names |-> {B("Atlantic"), B("Central Park"), <<67, 97, 102, 195>>},
   normalize |-> {GetDefaultNormalizeOptions,
                  [GetDefaultNormalizeOptions EXCEPT !.Lowercase = FALSE]}]

Step(g) ==
  \/ Guard(g)
  \/ Lock(g)
  \/ Prepare(g)
  \/ NativeCall(g)
  \/ NativeReturn(g)
  \/ ConvertResult(g)
  \/ Free(g)
  \/ Return(g)
  \/ TeardownLibrary(g)
  \/ TeardownClassifier(g)
  \/ TeardownReturn(g)

Call(g, W) ==
  \/ NearDupeNameOptions(g, W)
  \/ NearDupeNames(g, W)
  \/ NearDupeOptions(g, W)
  \/ NearDupe(g, W)
  \/ NearDupeDefaultOptions(g, W)
  \/ NearDupeLanguages(g, W)
  \/ PlaceLanguages(g, W)
  \/ NearDupeTeardown(g)

\* goroutines calling the package concurrently
Next ==
  \/ PackageInit
  \/ \E g \in Goroutines : Call(g, Concurrent) \/ Step(g)

Spec == Init /\ [][Next]_vars

\* Scheduling: a goroutine that can take a step of its call eventually takes
\* it, and one waiting in mu.Lock() is not passed over for ever (sync.Mutex
\* hands the mutex to a waiter that has starved)
Scheduled(g) ==
  /\ WF_vars(Guard(g))
  /\ SF_vars(Lock(g))
  /\ WF_vars(Prepare(g))
  /\ WF_vars(NativeCall(g))
  /\ WF_vars(ConvertResult(g))
  /\ WF_vars(Free(g))
  /\ WF_vars(Return(g))
  /\ WF_vars(TeardownLibrary(g) \/ TeardownClassifier(g) \/ TeardownReturn(g))

\* The library's functions do bounded work: control does not stay inside one
\* for ever, it comes back or the process dies there
LibraryReturns(g) == []<>(pc[g] # "native" \/ phase = "crashed")

Fairness == \A g \in Goroutines : Scheduled(g) /\ LibraryReturns(g)

SpecFair == Spec /\ Fairness

\* one goroutine calling the package, call after call
NextSeq ==
  \/ PackageInit
  \/ Call(1, Sequential)
  \/ Step(1)

SpecSeq == Init /\ [][NextSeq]_vars

(***************************************************************************)
(* The first call of a process, over families of arguments.                *)
(***************************************************************************)
\* every axis and both key sets requested, units apart
AllShapes ==
  [NoHashOptions EXCEPT !.WithName = TRUE, !.WithAddress = TRUE,
                        !.WithCityOrEquivalent = TRUE, !.WithPostalCode = TRUE,
                        !.NameAndAddressKeys = TRUE, !.AddressOnlyKeys = TRUE]

\* values and names that contain the key separator
SeparatorFamily ==
  [components |->
     {[labels |-> BS(<<"house", "house_number", "road", "city", "postcode">>),
       values |-> BS(<<"Central|Park", "4|2", "Main|St", "Port|land", "97201|">>)],
      [labels |-> BS(<<"house_number", "road", "unit", "city">>),
       values |-> BS(<<"23", " School St", "Apt|3", "|Brunswick|">>)],
      [labels |-> BS(<<"house_number", "road", "city">>),
       values |-> BS(<<"42", "|", "Portland">>)]},
   options |-> {AllShapes, [AllShapes EXCEPT !.WithUnit = TRUE]},
   languages |-> {<<>>},
   names |-> {B("New|York")},
   normalize |-> {GetDefaultNormalizeOptions}]

\* coordinates at and beyond the ends of their ranges, and the tests' position
Latitudes == {-900001, -MaxLatitude, -1, 0, 407484, 899999, MaxLatitude, 900001}
Longitudes == {-1800001, -MaxLongitude, -739857, 0, 1799999, MaxLongitude, 1800001}

\* the precisions up to MaxPrecision, and the default precision of the tests
Precisions == 0..MaxPrecision \cup {DefaultGeohashPrecision}

\* geohash options over the coordinates and the precisions
GeohashFamily ==
  [components |-> {MainStreet},
   options |->
     {[AddressOptions EXCEPT !.WithLatlon = TRUE, !.Latitude = lat,
                             !.Longitude = lon, !.GeohashPrecision = p] :
        lat \in Latitudes, lon \in Longitudes, p \in Precisions},
   languages |-> {<<>>},
   names |-> {},
   normalize |-> {}]

\* an address with a name, a unit and a state, under every choice of the axes
\* and key sets
AxesFamily ==
  [components |->
     {[labels |-> BS(<<"house", "house_number", "road", "unit", "city", "state",
                       "postcode">>),
       values |-> BS(<<"Central Park", "23", "School St", "Apt 3", "Brunswick",
                       "ME", "04011">>)],
      TestAddressWithoutUnit},
   options |->
     {[NoHashOptions EXCEPT
         !.WithName = name, !.WithAddress = address, !.WithUnit = unit,
         !.WithCityOrEquivalent = city, !.WithPostalCode = postcode,
         !.WithLatlon = latlon,
         !.Latitude = TestAddressWithGeohash.options.Latitude,
         !.Longitude = TestAddressWithGeohash.options.Longitude,
         !.GeohashPrecision = MaxPrecision,
         !.NameAndAddressKeys = nameKeys, !.AddressOnlyKeys = addressKeys] :
        name \in BOOLEAN, address \in BOOLEAN, unit \in BOOLEAN, city \in BOOLEAN,
        postcode \in BOOLEAN, latlon \in BOOLEAN, nameKeys \in BOOLEAN,
        addressKeys \in BOOLEAN},
   languages |-> {<<>>},
   names |-> {},
   normalize |-> {}]

\* the cases of TestPlaceLanguages
TestPlaceLanguages ==
  <<[labels |-> <<B("house_number"), B("road"), B("city"), B("state"), B("country")>>,
      values |-> <<B("123"),
                 B("Main St"),
                 B("New York"),
                 B("NY"),
                 B("USA")>>,
      expected |-> <<B("en")>>],
    [labels |-> <<B("house_number"), B("road"), B("city"), B("country")>>,
      values |-> <<B("15"),
                 B("Rue de la Paix"),
                 B("Paris"),
                 B("France")>>,
      expected |-> <<B("fr")>>],
    [labels |-> <<B("house_number"), B("road"), B("city"), B("country")>>,
      values |-> <<B("1"),
                 B("Unter den Linden"),
                 B("Berlin"),
                 B("Germany")>>,
      expected |-> <<B("de")>>],
    [labels |-> <<B("house_number"), B("road"), B("city"), B("country")>>,
      values |-> <<B("10"),
                 B("Rue de la Loi"),
                 B("Bruxelles"),
                 B("Belgium")>>,
      expected |-> <<B("fr")>>],
    [labels |-> <<B("suburb"), B("city"), B("country")>>,
      values |-> << <<230, 184, 139, 232, 176, 183, 229, 140, 186>>,
                 <<230, 157, 177, 228, 186, 172, 233, 131, 189>>,
                 <<230, 151, 165, 230, 156, 172>> >>,
      expected |-> <<B("ja")>>],
    [labels |-> <<B("suburb"), B("city"), B("country")>>,
      values |-> <<B("Shibuya"),
                 B("Tokyo"),
                 B("Japan")>>,
      expected |-> <<B("en")>>],
    [labels |-> <<B("house_number"), B("road"), B("city"), B("country")>>,
      values |-> <<B("1"),
                 <<208, 162, 208, 178, 208, 181, 209, 128, 209, 129, 208, 186, 208, 176, 209, 143, 32, 209, 131, 208, 187, 208, 184, 209, 134, 208, 176>>,
                 <<208, 156, 208, 190, 209, 129, 208, 186, 208, 178, 208, 176>>,
                 <<208, 160, 208, 190, 209, 129, 209, 129, 208, 184, 209, 143>> >>,
      expected |-> <<B("ru")>>],
    [labels |-> <<B("road"), B("city"), B("country")>>,
      values |-> << <<229, 140, 151, 228, 186, 172, 229, 184, 130, 228, 184, 156, 229, 159, 142, 229, 140, 186, 228, 184, 156, 233, 149, 191, 229, 174, 137, 232, 161, 151>>,
                 <<229, 140, 151, 228, 186, 172, 229, 184, 130>>,
                 <<228, 184, 173, 229, 155, 189>> >>,
      expected |-> <<B("zh")>>],
    [labels |-> <<B("road"), B("city"), B("country")>>,
      values |-> << <<236, 132, 184, 236, 162, 133, 235, 161, 156>>,
                 <<236, 132, 156, 236, 154, 184>>,
                 <<235, 140, 128, 237, 149, 156, 235, 175, 188, 234, 181, 173>> >>,
      expected |-> <<B("ko")>>]>>

\* single scripts, kana beside Han, a country against the words of the road,
\* words alone, a tie and no signal
LanguageInputs ==
  {[labels |-> <<B("suburb"), B("city")>>,
     values |-> << <<230, 184, 139, 232, 176, 183, 229, 140, 186>>,
                <<227, 129, 168, 227, 129, 134, 227, 129, 141, 227, 130, 135, 227, 129, 134>> >>],
   [labels |-> <<B("city")>>,
     values |-> << <<229, 140, 151, 228, 186, 172, 229, 184, 130>> >>],
   [labels |-> <<B("city")>>,
     values |-> << <<236, 132, 156, 236, 154, 184>> >>],
   [labels |-> <<B("road")>>,
     values |-> << <<208, 162, 208, 178, 208, 181, 209, 128, 209, 129, 208, 186, 208, 176, 209, 143, 32, 209, 131, 208, 187, 208, 184, 209, 134, 208, 176>> >>],
   [labels |-> <<B("road"), B("city"), B("country")>>,
     values |-> <<B("Main Street"),
                B("Paris"),
                B("France")>>],
   [labels |-> <<B("road"), B("city")>>,
     values |-> <<B("Rue de la Paix"),
                B("Paris")>>],
   [labels |-> <<B("road"), B("city")>>,
     values |-> <<B("Main"),
                B("Paris")>>],
   [labels |-> <<B("city")>>,
     values |-> <<B("Xyz")>>]}

\* components for the language detector
LanguageFamily ==
  [components |->
     {Components(TestPlaceLanguages[i]) : i \in 1..Len(TestPlaceLanguages)}
     \cup LanguageInputs,
   options |-> {},
   languages |-> {},
   names |-> {},
   normalize |-> {}]

\* a byte that starts a two-byte character, followed by no continuation
BadText == <<195, 40>>

\* malformed text as a value, a label, a language and a name; a name with an
\* embedded terminator
MalformedFamily ==
  [components |->
     {[labels |-> BS(<<"house_number", "road", "city", "state">>),
       values |-> BS(<<"42", "Main St", "Portland">>) \o <<BadText>>],
      [labels |-> BS(<<"house_number", "road", "city">>),
       values |-> <<B("42"), B("Main ") \o BadText, B("Portland")>>],
      [labels |-> BS(<<"house_number", "road">>) \o <<BadText>>,
       values |-> BS(<<"42", "Main St", "Portland">>)],
      [labels |-> BS(<<"city">>), values |-> <<BadText>>]},
   options |-> {AddressOptions},
   languages |-> {<<>>, <<BadText>>, BS(<<"en">>)},
   names |-> {BadText, B("Caf") \o <<195>>, B("IV") \o <<NUL>> \o B("X")},
   normalize |-> {GetDefaultNormalizeOptions}]

\* the cases of TestNearDupeNameHashes
TestNearDupeNameHashes ==
  <<[name |-> B("Atlantic"),
     options |-> GetDefaultNormalizeOptions,
     expected |-> <<B("ATLN"), B("TLNT"), B("LNTK"), B("atla"), B("tlan"), B("lant"), B("anti"), B("ntic")>>],
    [name |-> B("IV"),
     options |-> GetDefaultNormalizeOptions,
     expected |-> <<B("AF"), B("iv"), B("4")>>],
    [name |-> B("New York"),
     options |-> GetDefaultNormalizeOptions,
     expected |-> <<B("N"), B("NF"), B("new"), B("ARK"), B("york"), B("NRK")>>],
    [name |-> B("6th"),
     options |-> GetDefaultNormalizeOptions,
     expected |-> <<B("0"), B("T"), B("6th"), B("6"), B("th")>>],
    [name |-> B("Six"),
     options |-> GetDefaultNormalizeOptions,
     expected |-> <<B("6")>>],
    [name |-> <<67, 97, 102, 195, 169>>,
     options |-> [ZeroNormalizeOptions EXCEPT !.Lowercase = TRUE],
     expected |-> <<B("KF"), <<99, 97, 102, 195, 169>>, B("cafe")>>],
    [name |-> B("7Eleven"),
     options |-> GetDefaultNormalizeOptions,
     expected |-> <<B("LFN"), B("7ele"), B("elev"), B("leve"), B("even"), B("7-el"), B("-ele")>>],
    [name |-> B("McDonald's"),
     options |-> [ZeroNormalizeOptions EXCEPT !.DeleteApostrophes = TRUE],
     expected |-> <<B("MKTN"), B("KTNL"), B("TNLT"), B("NLTS"), B("McDo"), B("cDon"), B("Dona"), B("onal"), B("nald"), B("alds")>>],
    [name |-> B("McDonald's"),
     options |-> ZeroNormalizeOptions,
     expected |-> <<B("MKTN"), B("KTNL"), B("TNLT"), B("NLTS"), B("McDo"), B("cDon"), B("Dona"), B("onal"), B("nald"), B("ald'"), B("ld's")>>]>>

\* the tests' names under the tests' options; streets and units with several
\* forms
NormalizerFamily ==
  [components |->
     {Components(TestAddressWithGeohash), Components(TestFrenchAddress),
      [labels |-> BS(<<"house", "house_number", "road", "unit", "city">>),
       values |-> BS(<<"Central Park IV", "23", "5th St", "Apt Unit 3", "New York">>)]},
   options |-> {[AllShapes EXCEPT !.WithUnit = TRUE], AllShapes},
   languages |-> {<<>>, BS(<<"fr", "en">>)},
   names |-> {TestNearDupeNameHashes[i].name : i \in 1..Len(TestNearDupeNameHashes)}
             \cup {B("Central Park")},
   normalize |-> {TestNearDupeNameHashes[i].options : i \in 1..Len(TestNearDupeNameHashes)}]

\* the families of arguments of a first call
Families ==
  <<SeparatorFamily, GeohashFamily, AxesFamily, LanguageFamily, MalformedFamily,
    NormalizerFamily>>

\* the first call of goroutine g
FirstCall(g) ==
  /\ fn[g] = "none"
  /\ \E i \in 1..Len(Families) :
       \/ NearDupeOptions(g, Families[i])
       \/ PlaceLanguages(g, Families[i])
       \/ NearDupeNameOptions(g, Families[i])

\* the steps of a call that is not a teardown
CallStep(g) ==
  \/ Guard(g)
  \/ Lock(g)
  \/ Prepare(g)
  \/ NativeCall(g)
  \/ NativeReturn(g)
  \/ ConvertResult(g)
  \/ Free(g)
  \/ Return(g)

\* a process that makes one call
NextFirst ==
  \/ PackageInit
  \/ FirstCall(1)
  \/ CallStep(1)

SpecFirst == Init /\ [][NextFirst]_vars

(***************************************************************************)
(* Concurrent callers whose arguments trip the guards.                     *)
(***************************************************************************)
Guarded ==
  [components |-> {MoreValues, MoreLabels, NoComponentsAtAll},
   options |-> {AddressOptions},
   languages |-> {<<>>},
   names |-> {B("IV"), <<195, 40>>},
   normalize |-> {GetDefaultNormalizeOptions}]

NextGuards ==
  \/ PackageInit
  \/ \E g \in Goroutines :
       \/ NearDupeNameOptions(g, Guarded)
       \/ NearDupeOptions(g, Guarded)
       \/ PlaceLanguages(g, Guarded)
       \/ CallStep(g)

SpecGuards == Init /\ [][NextGuards]_vars

(***************************************************************************)
(* Properties.                                                             *)
(***************************************************************************)
\* the call of g has returned a slice or nil
Done(g) == pc[g] = "idle" /\ ret[g].kind # "none"

\* the call of g has returned what the library computed on loaded resources
Computed(g) == Done(g) /\ ran[g] = "loaded"

\* C1: at most one goroutine is inside a function of the library at any time,
\* teardown included, and the goroutine inside it holds the mutex.
C1_MutualExclusion ==
  \A g, h \in Goroutines :
    native[g] # "none" => (mu = g /\ (native[h] # "none" => g = h))

\* a goroutine is inside the library while another waits for the mutex to tear
\* the library down
C1_Witness ==
  \E g, h \in Goroutines :
    /\ g # h
    /\ native[g] \in {"libpostal_near_dupe_hashes", "libpostal_place_languages"}
    /\ pc[h] = "lock"
    /\ fn[h] = "NearDupeTeardown"

\* C2: NearDupeOptions, however it is reached, returns nil and never enters
\* the library when the numbers of labels and values differ or there is no
\* component, for every options value and every languages list.
C2_NearDupeOptionsGuard ==
  \A g \in Goroutines :
    ( /\ fn[g] = "NearDupeOptions"
      /\ (Len(args[g].labels) # Len(args[g].values) \/ Len(args[g].labels) = 0) )
    => /\ ran[g] = "no"
       /\ native[g] = "none"
       /\ cmem[g] = NoMem
       /\ pc[g] = "idle" => ret[g] = NilSlice

\* a call with more values than labels and a languages list has returned nil
C2_Witness ==
  \E g \in Goroutines :
    /\ fn[g] = "NearDupeOptions"
    /\ Len(args[g].labels) > 0
    /\ Len(args[g].values) > Len(args[g].labels)
    /\ Len(args[g].languages) > 0
    /\ pc[g] = "idle"
    /\ ret[g] = NilSlice

\* C3: PlaceLanguages returns nil and never enters the library when the
\* numbers of labels and values differ or there is no component.
C3_PlaceLanguagesGuard ==
  \A g \in Goroutines :
    ( /\ fn[g] = "PlaceLanguages"
      /\ (Len(args[g].labels) # Len(args[g].values) \/ Len(args[g].labels) = 0) )
    => /\ ran[g] = "no"
       /\ native[g] = "none"
       /\ cmem[g] = NoMem
       /\ pc[g] = "idle" => ret[g] = NilSlice

\* a call of PlaceLanguages with more values than labels has returned nil
C3_Witness ==
  \E g \in Goroutines :
    /\ fn[g] = "PlaceLanguages"
    /\ Len(args[g].labels) > 0
    /\ Len(args[g].values) > Len(args[g].labels)
    /\ pc[g] = "idle"
    /\ ret[g] = NilSlice

\* C4: NearDupeNameOptions returns nil for a name that is not valid UTF-8,
\* whatever the options, and the name is neither copied for the library nor
\* passed to it.
C4_InvalidNameGuard ==
  \A g \in Goroutines :
    (fn[g] = "NearDupeNameOptions" /\ ~ValidString(args[g].name))
    => /\ ran[g] = "no"
       /\ native[g] = "none"
       /\ cmem[g] = NoMem
       /\ pc[g] = "idle" => ret[g] = NilSlice

\* a call with a truncated two-byte character has returned nil
C4_Witness ==
  \E g \in Goroutines :
    /\ fn[g] = "NearDupeNameOptions"
    /\ ~ValidString(args[g].name)
    /\ ~args[g].options.Lowercase
    /\ pc[g] = "idle"
    /\ ret[g] = NilSlice

\* C5: no call enters the library once its resources have been released.
C5_FailFastAfterTeardown ==
  \A g \in Goroutines : ran[g] # "released"

\* C6: each setup function runs at most once, both have run and succeeded
\* before any entry point is called, and no entry point is ever called in a
\* process whose setup failed.
C6_LoadedOnceBeforeUse ==
  /\ setupCalls.setup <= 1
  /\ setupCalls.classifier <= 1
  /\ (\E g \in Goroutines : fn[g] # "none")
       => /\ phase # "fatal"
          /\ setupCalls.setup = 1
          /\ setupCalls.classifier = 1
          /\ resources.lib # "unloaded"
          /\ resources.classifier # "unloaded"
  /\ phase \in {"start", "fatal"} => \A g \in Goroutines : fn[g] = "none" /\ pc[g] = "idle"

\* a second call is inside the library, and each setup function has run once
C6_Witness ==
  \E g, h \in Goroutines :
    /\ g # h
    /\ Done(h)
    /\ native[g] = "libpostal_near_dupe_hashes"
    /\ setupCalls.setup = 1
    /\ setupCalls.classifier = 1

\* C7: two calls of NearDupeOptions with the same components, options and
\* languages return the same key list, whatever was called in between.
C7_Determinism ==
  \A g, h \in Goroutines :
    ( /\ fn[g] = "NearDupeOptions" /\ fn[h] = "NearDupeOptions"
      /\ args[g] = args[h]
      /\ Done(g) /\ Done(h) )
    => ret[g] = ret[h]

\* the orders in which n components can be supplied
Perms(n) == {p \in [1..n -> 1..n] : \A i, j \in 1..n : p[i] = p[j] => i = j}

\* the labels of a component list are pairwise distinct, as the keys of a map
DistinctLabels(a) ==
  \A i, j \in 1..Len(a.labels) : a.labels[i] = a.labels[j] => i = j

\* the arguments of a call, its components supplied in another order
Reordered(a, p) ==
  [a EXCEPT !.labels = [i \in 1..Len(p) |-> a.labels[p[i]]],
            !.values = [i \in 1..Len(p) |-> a.values[p[i]]]]

C9_LanguagesOptional ==
  \A g \in Goroutines :
    ( /\ fn[g] = "NearDupeOptions"
      /\ Len(args[g].labels) = Len(args[g].values)
      /\ Len(args[g].labels) > 0 )
    => /\ pc[g] = "native"
            => native[g] = IF Len(args[g].languages) > 0
                             THEN "libpostal_near_dupe_hashes_languages"
                           ELSE "libpostal_near_dupe_hashes"
       /\ Computed(g)
            => IF Len(args[g].languages) > 0
                 THEN ret[g].items =
                        near_dupe_hashes_languages(args[g].labels, args[g].values,
                                                   cHashOptions(args[g].options),
                                                   args[g].languages)
               ELSE ret[g] =
                      Result("NearDupeOptions",
                             [args[g] EXCEPT !.languages =
                                Result("PlaceLanguages", args[g]).items])

\* keys have come back for a French address given without languages
C9_Witness ==
  \E g \in Goroutines :
    /\ fn[g] = "NearDupeOptions"
    /\ Computed(g)
    /\ args[g].languages = <<>>
    /\ Result("PlaceLanguages", args[g]).items = BS(<<"fr">>)
    /\ Len(ret[g].items) > 1

\* the roles of each key shape, in the order of its fields
ShapeRoles ==
  [nact |-> <<"name", "street", "number", "city">>,
   napc |-> <<"name", "street", "number", "postcode">>,
   auct |-> <<"street", "number", "unit", "city">>,
   aupc |-> <<"street", "number", "unit", "postcode">>,
   agh |-> <<"street", "number", "geo">>,
   act |-> <<"street", "number", "city">>,
   apc |-> <<"street", "number", "postcode">>]

\* the VariantSet of a role for the arguments of a call
RoleSet(role, a, langs) ==
  IF role = "name" THEN NameHashes(Field(a.labels, a.values, B("house")), NameDefaults)
  ELSE IF role = "street" THEN Variants(Field(a.labels, a.values, B("road")), "street", langs)
  ELSE IF role = "number"
    THEN Variants(Field(a.labels, a.values, B("house_number")), "number", langs)
  ELSE IF role = "unit" THEN Variants(Field(a.labels, a.values, B("unit")), "unit", langs)
  ELSE IF role = "city"
    THEN Dedup(Variants(Field(a.labels, a.values, B("city")), "city", langs)
               \o Variants(Field(a.labels, a.values, B("suburb")), "city", langs))
  ELSE IF role = "postcode"
    THEN Variants(Field(a.labels, a.values, B("postcode")), "postcode", langs)
  ELSE GeohashVariants(a.options.Latitude, a.options.Longitude,
                       a.options.GeohashPrecision)

\* the working languages of a call
WorkingLanguages(a) ==
  IF Len(a.languages) > 0 THEN a.languages ELSE place_languages(a.labels, a.values)

RECURSIVE Sizes(_, _)
\* the number of combinations of the sets after the j-th
Sizes(sets, j) == IF j >= Len(sets) THEN 1 ELSE Len(sets[j+1]) * Sizes(sets, j+1)

\* the k-th combination, counted with the first set slowest
Combination(sets, k) ==
  [j \in 1..Len(sets) |-> sets[j][(((k-1) \div Sizes(sets, j)) % Len(sets[j])) + 1]]

\* one key per combination of the sets, the first set slowest
RowMajor(code, sets) ==
  [k \in 1..Sizes(sets, 0) |-> Join(<<B(code)>> \o Combination(sets, k), SEP)]

\* the keys of a list that carry a type code
OfShape(keys, code) ==
  SelectSeq(keys, LAMBDA key : Len(key) > Len(code) /\ SubSeq(key, 1, Len(code) + 1) = B(code) \o SEP)

\* C10: the keys of each shape that a call on loaded resources returns are
\* the combinations of the VariantSets of the shape's roles, one key each,
\* the first role slowest and each VariantSet in its order, so that their
\* number is the product of the sizes of the sets; the tests' inputs return
\* the tests' lists.
C10_CartesianProduct ==
  \A g \in Goroutines :
    (fn[g] = "NearDupeOptions" /\ Computed(g))
    => /\ \A code \in DOMAIN ShapeRoles :
            \/ OfShape(ret[g].items, code) = <<>>
            \/ OfShape(ret[g].items, code) =
                 RowMajor(code, [j \in 1..Len(ShapeRoles[code]) |->
                                   RoleSet(ShapeRoles[code][j], args[g],
                                           WorkingLanguages(args[g]))])
       /\ \A i \in 1..Len(TestNearDupeHashes) :
            ( /\ args[g].labels = TestNearDupeHashes[i].labels
              /\ args[g].values = TestNearDupeHashes[i].values
              /\ args[g].options = TestNearDupeHashes[i].options
              /\ args[g].languages = <<>> )
            => ret[g].items = TestNearDupeHashes[i].expected

\* 14 nact keys then 14 napc keys have come back: 7 name codes outermost over
\* 2 street forms
C10_Witness ==
  \E g \in Goroutines :
    /\ fn[g] = "NearDupeOptions"
    /\ Computed(g)
    /\ Len(OfShape(ret[g].items, "nact")) = 14
    /\ Len(OfShape(ret[g].items, "napc")) = 14
    /\ Len(RoleSet("name", args[g], WorkingLanguages(args[g]))) = 7
    /\ Len(RoleSet("street", args[g], WorkingLanguages(args[g]))) = 2

\* the fields of a key: the type code, then what the separator delimits
KeyParts(key) == Split(key, SEP[1])

\* a key is the type code of a shape, then one field per role of the shape,
\* each a member of the VariantSet of its role
WellFormedKey(key, a) ==
  LET wellFormed(parts) ==
        \E code \in DOMAIN ShapeRoles :
          /\ parts[1] = B(code)
          /\ Len(parts) = Len(ShapeRoles[code]) + 1
          /\ \A j \in 1..Len(ShapeRoles[code]) :
               /\ Len(parts[j+1]) > 0
               /\ parts[j+1] \in
                    Range(RoleSet(ShapeRoles[code][j], a, WorkingLanguages(a)))
  IN wellFormed(KeyParts(key))

GeoColumn(keys) ==
  LET column(agh) == Dedup([k \in 1..Len(agh) |-> KeyParts(agh[k])[4]])
  IN column(OfShape(keys, "agh"))

\* the options ask for a precision of at least 1 at coordinates in range
ValidGeo(o) ==
  /\ o.GeohashPrecision >= 1
  /\ o.Latitude >= -MaxLatitude /\ o.Latitude <= MaxLatitude
  /\ o.Longitude >= -MaxLongitude /\ o.Longitude <= MaxLongitude

\* the row and the column of the grid cell of the options' coordinates
Row(o) == FracBits(o.Latitude + MaxLatitude, 2 * MaxLatitude, LatBits(o.GeohashPrecision))
Col(o) == FracBits(o.Longitude + MaxLongitude, 2 * MaxLongitude, LonBits(o.GeohashPrecision))

\* the cell lies in the row next to a pole
AtPole(o) == Row(o) = 0 \/ Row(o) = Pow2(LatBits(o.GeohashPrecision)) - 1

\* the geohashes of the tests' 'Address with geohash'
TestGeohashes ==
  BS(<<"dr5ru6", "dr5ru4", "dr5rud", "dr5ru3", "dr5ru1", "dr5ru9", "dr5ru7",
       "dr5ru5", "dr5rue">>)

\* a call on loaded resources has returned agh keys for coordinates in range
GeohashCall(g) ==
  /\ fn[g] = "NearDupeOptions"
  /\ Computed(g)
  /\ args[g].options.WithLatlon
  /\ ValidGeo(args[g].options)
  /\ OfShape(ret[g].items, "agh") # <<>>

\* C12: for coordinates in range and a precision of at least 1 the geohash
\* VariantSet starts with the encoding of the position itself, followed by
\* the neighbouring cells in the one order W, E, S, SW, SE, N, NW, NE, all
\* distinct: 9 entries, and 6 when the cell lies in the row next to a pole,
\* where the cells beyond the pole do not exist.
C12_GeohashNeighbours ==
  \A g \in Goroutines :
    GeohashCall(g)
    => /\ Len(GeoColumn(ret[g].items)) = (IF AtPole(args[g].options) THEN 6 ELSE 9)
       /\ GeoColumn(ret[g].items)[1] =
            CellCode(Row(args[g].options), Col(args[g].options),
                     args[g].options.GeohashPrecision)
       /\ GeoColumn(ret[g].items) =
            NonEmpty(Cells(Row(args[g].options), Col(args[g].options),
                           Pow2(LatBits(args[g].options.GeohashPrecision)),
                           Pow2(LonBits(args[g].options.GeohashPrecision)),
                           args[g].options.GeohashPrecision))
       /\ ( /\ args[g].options.Latitude = TestAddressWithGeohash.options.Latitude
            /\ args[g].options.Longitude = TestAddressWithGeohash.options.Longitude
            /\ args[g].options.GeohashPrecision = 6 )
          => GeoColumn(ret[g].items) = TestGeohashes

\* C12 as stated: the geohash VariantSet has 9 entries for every position in
\* range.
C12_AlwaysNine ==
  \A g \in Goroutines : GeohashCall(g) => Len(GeoColumn(ret[g].items)) = 9

\* the cell of the position and its 8 neighbours have come back
C12_Witness ==
  \E g \in Goroutines :
    /\ GeohashCall(g)
    /\ ~AtPole(args[g].options)
    /\ Len(GeoColumn(ret[g].items)) = 9
    /\ args[g].options.Latitude = TestAddressWithGeohash.options.Latitude

\* C13: with_latlon set with a precision of zero or with coordinates out of
\* range contributes no agh key, the call returns exactly what it returns
\* with with_latlon unset, and it does not fail.
C13_InvalidGeohash ==
  \A g \in Goroutines :
    ( /\ fn[g] = "NearDupeOptions"
      /\ Computed(g)
      /\ args[g].options.WithLatlon
      /\ ~ValidGeo(args[g].options) )
    => /\ phase = "ready"
       /\ OfShape(ret[g].items, "agh") = <<>>
       /\ ret[g] = Result("NearDupeOptions",
                          [args[g] EXCEPT !.options.WithLatlon = FALSE])

\* a call with a latitude out of range has returned its act and apc keys
C13_Witness ==
  \E g \in Goroutines :
    /\ fn[g] = "NearDupeOptions"
    /\ Computed(g)
    /\ args[g].options.WithLatlon
    /\ args[g].options.GeohashPrecision >= 1
    /\ args[g].options.Latitude > MaxLatitude
    /\ OfShape(ret[g].items, "act") # <<>>
    /\ OfShape(ret[g].items, "apc") # <<>>

\* the type code of a key
TypeCode(key) == KeyParts(key)[1]

\* the place of a shape in the output
Rank(code) ==
  IF code = B("nact") THEN 1 ELSE IF code = B("napc") THEN 2
  ELSE IF code = B("auct") THEN 3 ELSE IF code = B("aupc") THEN 4
  ELSE IF code = B("agh") THEN 5 ELSE IF code = B("act") THEN 6 ELSE 7

\* the type codes of the keys of a list
TypeCodes(keys) == [k \in 1..Len(keys) |-> TypeCode(keys[k])]

\* the keys of each shape are contiguous: a key that has a later key of its
\* shape is followed by a key of its shape
Contiguous(keys) ==
  LET contiguous(codes) ==
        \A i, k \in 1..Len(codes) :
          (i < k /\ codes[i] = codes[k]) => codes[i+1] = codes[i]
  IN contiguous(TypeCodes(keys))

\* the shapes follow one another in one order, agh before act before apc
Ordered(keys) ==
  LET ordered(codes) ==
        \A i \in 1..(Len(codes) - 1) : Rank(codes[i]) <= Rank(codes[i+1])
  IN ordered(TypeCodes(keys))

\* a call on loaded resources with with_latlon, the address axis, the city
\* axis and the address-only keys, whose components have a street, a number
\* and a city
GeohashAndCityCall(g) ==
  /\ fn[g] = "NearDupeOptions"
  /\ Computed(g)
  /\ args[g].options.WithLatlon /\ ValidGeo(args[g].options)
  /\ args[g].options.WithAddress /\ args[g].options.WithCityOrEquivalent
  /\ args[g].options.AddressOnlyKeys
  /\ \A role \in {"street", "number", "city"} :
       RoleSet(role, args[g], WorkingLanguages(args[g])) # <<>>

\* the unit axis is enabled and a component gives it a variant
WithUnitVariant(a) ==
  a.options.WithUnit /\ RoleSet("unit", a, WorkingLanguages(a)) # <<>>

\* the number of keys of a shape
Count(keys, code) == Len(OfShape(keys, code))

LabelRole(label) ==
  IF label = B("house") THEN "name"
  ELSE IF label = B("road") THEN "street"
  ELSE IF label = B("house_number") THEN "number"
  ELSE IF label = B("unit") THEN "unit"
  ELSE IF label = B("city") \/ label = B("suburb") THEN "city"
  ELSE IF label = B("postcode") THEN "postcode"
  ELSE "none"

\* the options enable the axis of a role
Enabled(role, o) ==
  IF role = "name" THEN o.WithName
  ELSE IF role = "street" \/ role = "number" THEN o.WithAddress
  ELSE IF role = "unit" THEN o.WithUnit
  ELSE IF role = "city" THEN o.WithCityOrEquivalent
  ELSE IF role = "postcode" THEN o.WithPostalCode
  ELSE FALSE

\* the forms under which a component would appear in a key
ComponentForms(label, v, langs) ==
  IF LabelRole(label) = "name" THEN NameHashes(v, NameDefaults)
  ELSE Variants(v, LabelRole(label), langs)

\* the fields of the keys of a list
KeyFields(keys) ==
  UNION {{KeyParts(keys[k])[j] : j \in 2..Len(KeyParts(keys[k]))} : k \in 1..Len(keys)}

\* C15: a key of a shape comes back only if every axis of the shape is
\* enabled: apc, aupc, napc only with with_postal_code; act, auct, nact only
\* with the city axis; auct, aupc only with with_unit; agh only with
\* with_latlon; nact, napc only with with_name and name_and_address_keys; act,
\* apc, agh, auct, aupc only with address_only_keys; all of them only with the
\* address axis.  No form of a component whose axis is not enabled (a state;
\* a unit when with_unit is unset) is a field of any key.
C15_EnabledAxesOnly ==
  \A g \in Goroutines :
    (fn[g] = "NearDupeOptions" /\ Computed(g))
    => /\ \A code \in {"apc", "aupc", "napc"} :
            Count(ret[g].items, code) > 0 => args[g].options.WithPostalCode
       /\ \A code \in {"act", "auct", "nact"} :
            Count(ret[g].items, code) > 0 => args[g].options.WithCityOrEquivalent
       /\ \A code \in {"auct", "aupc"} :
            Count(ret[g].items, code) > 0 => args[g].options.WithUnit
       /\ Count(ret[g].items, "agh") > 0 => args[g].options.WithLatlon
       /\ \A code \in {"nact", "napc"} :
            Count(ret[g].items, code) > 0
            => (args[g].options.WithName /\ args[g].options.NameAndAddressKeys)
       /\ \A code \in {"act", "apc", "agh", "auct", "aupc"} :
            Count(ret[g].items, code) > 0 => args[g].options.AddressOnlyKeys
       /\ Len(ret[g].items) > 0 => args[g].options.WithAddress
       /\ \A i \in 1..Len(args[g].labels) :
            ~Enabled(LabelRole(args[g].labels[i]), args[g].options)
            => Range(ComponentForms(args[g].labels[i], args[g].values[i],
                                    WorkingLanguages(args[g])))
                 \cap KeyFields(ret[g].items) = {}

\* keys have come back for an address with a unit and a state while the unit
\* axis was not enabled
C15_Witness ==
  \E g \in Goroutines :
    /\ fn[g] = "NearDupeOptions"
    /\ Computed(g)
    /\ ~args[g].options.WithUnit
    /\ \E i, j \in 1..Len(args[g].labels) :
         args[g].labels[i] = B("unit") /\ args[g].labels[j] = B("state")
    /\ Count(ret[g].items, "act") > 0
    /\ Count(ret[g].items, "nact") > 0
    /\ Count(ret[g].items, "apc") = 0

\* the scripts of the well-formed values of a call
ArgScripts(a) == UNION {Scripts(Text(a.values[i])) : i \in 1..Len(a.values)}

\* PlaceLanguages has returned what the library computed on loaded resources
DetectorCall(g) == fn[g] = "PlaceLanguages" /\ Computed(g)

\* the call has the components of the i-th case of TestPlaceLanguages
IsTestPlace(a, i) ==
  a.labels = TestPlaceLanguages[i].labels /\ a.values = TestPlaceLanguages[i].values

PlaceWords(a) ==
  Words(Lower(Text(Field(a.labels, a.values, B("road")))))
  \o Words(Lower(Text(Field(a.labels, a.values, B("city")))))

\* C17: for Latin-script components the language of a country the detector
\* knows wins over the words of the road and the city; without such a country
\* the language whose words score highest is returned, and on a tie or
\* without any signal the result is en.  The result of PlaceLanguages for a
\* non-empty list with as many values as labels is never empty, and the
\* tests' Latin addresses, among them the transliterated Japanese one with the
\* country Japan, give the tests' languages.
C17_LatinDetection ==
  \A g \in Goroutines :
    DetectorCall(g)
    => /\ Len(ret[g].items) >= 1
       /\ ArgScripts(args[g]) = {}
          => /\ Len(ret[g].items) = 1
             /\ CountryLanguage(Field(args[g].labels, args[g].values, B("country"))) # <<>>
                => ret[g].items[1] =
                     CountryLanguage(Field(args[g].labels, args[g].values, B("country")))
             /\ ( /\ CountryLanguage(Field(args[g].labels, args[g].values, B("country"))) = <<>>
                  /\ BestLexicon(PlaceWords(args[g])) # <<>> )
                => ret[g].items[1] = BestLexicon(PlaceWords(args[g]))
             /\ ( /\ CountryLanguage(Field(args[g].labels, args[g].values, B("country"))) = <<>>
                  /\ BestLexicon(PlaceWords(args[g])) = <<>> )
                => ret[g].items[1] = B("en")
       /\ \A i \in {1, 2, 3, 4, 6} :
            IsTestPlace(args[g], i) => ret[g].items = TestPlaceLanguages[i].expected

\* fr has come back for the country France although the road is Main Street
C17_Witness ==
  \E g \in Goroutines :
    /\ DetectorCall(g)
    /\ Field(args[g].labels, args[g].values, B("country")) = B("France")
    /\ Field(args[g].labels, args[g].values, B("road")) = B("Main Street")
    /\ ret[g].items = <<B("fr")>>

\* a text argument of the call is not well-formed UTF-8
Malformed(f, a) ==
  IF f = "NearDupeNameOptions" THEN ~ValidString(a.name)
  ELSE \/ \E i \in 1..Len(a.labels) : ~ValidString(a.labels[i])
       \/ \E i \in 1..Len(a.values) : ~ValidString(a.values[i])
       \/ (f = "NearDupeOptions" /\ \E i \in 1..Len(a.languages) : ~ValidString(a.languages[i]))

\* C18: no argument makes NearDupeOptions, PlaceLanguages or
\* NearDupeNameOptions abort: every call on loaded resources returns a list
\* or nil, and a call with malformed text among its labels, values, languages
\* or as its name returns an empty result.
C18_MalformedGivesEmpty ==
  /\ phase # "crashed"
  /\ \A g \in Goroutines :
       (Done(g) /\ ran[g] # "released" /\ Malformed(fn[g], args[g]))
       => ret[g].items = <<>>

\* NearDupeNameOptions has returned what the library computed on loaded
\* resources
NameCall(g) == fn[g] = "NearDupeNameOptions" /\ Computed(g)

\* what the options of a call ask of the normalizer of names
NameOptions(o) ==
  [lowercase |-> o.Lowercase, roman_numerals |-> o.RomanNumerals,
   expand_numex |-> o.ExpandNumex,
   split_alpha_from_numeric |-> o.SplitAlphaFromNumeric,
   delete_apostrophes |-> o.DeleteApostrophes]

\* the words of the name of a call, after the library's copy of the name
NameWords(a) == Words(IF a.options.Lowercase THEN Lower(strz(CString(a.name))) ELSE strz(CString(a.name)))

\* the keys of one word: the windows of its phonetic codes, then the windows
\* of its normalized forms from left to right
CodesThenWindows(w, o) ==
  AllWindows(Metaphone(Lower(w))) \o AllWindows(WordForms(w, o))

\* the words in lower case
LowerWords(ws) == [i \in 1..Len(ws) |-> Lower(ws[i])]

\* the keys of the words of a name, word after word
PerWord(ws, o) == Flatten([i \in 1..Len(ws) |-> CodesThenWindows(ws[i], o)])

Renormalized(set, role, langs) ==
  UNION {Range(Variants(set[k], role, langs)) : k \in 1..Len(set)}

\* normalizing the members of the VariantSet of a text again gives the
\* VariantSet, for the text and for each of its members
Idempotent(v, role, langs) ==
  /\ Renormalized(Variants(v, role, langs), role, langs)
       = Range(Variants(v, role, langs))
  /\ \A m \in Range(Variants(v, role, langs)) :
       /\ Range(Variants(m, role, langs)) \subseteq Range(Variants(v, role, langs))
       /\ Renormalized(Variants(m, role, langs), role, langs)
            = Range(Variants(m, role, langs))

\* the normalized forms of the forms of a word of a name, taken together
RenormalizedWord(forms, o) ==
  UNION {Range(WordForms(forms[k], o)) : k \in 1..Len(forms)}

\* normalizing the forms of a word of a name again gives the forms
IdempotentWord(w, o) ==
  /\ RenormalizedWord(WordForms(w, o), o) = Range(WordForms(w, o))
  /\ \A m \in Range(WordForms(w, o)) :
       RenormalizedWord(WordForms(m, o), o) = Range(WordForms(m, o))

DistinctNonEmpty(ss) ==
  /\ \A i \in 1..Len(ss) : Len(ss[i]) > 0
  /\ \A i \in 1..Len(ss) : \A j \in 1..Len(ss) : ss[i] = ss[j] => i = j

\* no field of a key is empty
NoEmptyField(key) ==
  LET nonEmpty(parts) == \A j \in 1..Len(parts) : Len(parts[j]) > 0
  IN nonEmpty(KeyParts(key))

\* the roles a component list can be sorted into
KeyRoles == {"name", "street", "number", "unit", "city", "postcode", "geo"}

\* C21: the VariantSet of every role holds pairwise distinct, non-empty
\* strings, and so does every key list that NearDupeOptions or
\* NearDupeNameOptions returns on loaded resources: no key occurs twice in it,
\* no key is empty and no field of an address key is empty.
C21_DistinctNonEmpty ==
  \A g \in Goroutines :
    /\ (fn[g] = "NearDupeOptions" /\ Computed(g))
       => /\ \A role \in KeyRoles :
               DistinctNonEmpty(RoleSet(role, args[g], WorkingLanguages(args[g])))
          /\ DistinctNonEmpty(ret[g].items)
          /\ \A k \in 1..Len(ret[g].items) : NoEmptyField(ret[g].items[k])
    /\ NameCall(g) => DistinctNonEmpty(ret[g].items)

\* ten keys or more have come back for one address whose street has several
\* forms
C21_Witness ==
  \E g \in Goroutines :
    /\ fn[g] = "NearDupeOptions"
    /\ Computed(g)
    /\ Len(RoleSet("street", args[g], WorkingLanguages(args[g]))) > 1
    /\ Len(ret[g].items) >= 10


\* nothing allocated for the call of g, or handed back to it, is still
\* allocated
Released(g) == ~cmem[g].live /\ ~cres[g].live /\ cres[g].strings = 0

\* C22: when NearDupeNameOptions, NearDupeOptions or PlaceLanguages has
\* returned, on whatever path, every native allocation of the call has been
\* released: the C copies of the name, labels, values and languages, the
\* result array, and each result string in it.
C22_AllReleased ==
  \A g \in Goroutines : Done(g) => Released(g)


\* g is inside a call of an entry point
InCall(g) == pc[g] # "idle"

C23_ReturnsOrCrashed ==
  \A g \in Goroutines : InCall(g) ~> (~InCall(g) \/ phase = "crashed")

\* the mutex is free whenever no goroutine is past mu.Lock()
C23_FreeWhenUnused ==
  (\A g \in Goroutines : pc[g] \in {"idle", "entry", "lock"}) => mu = 0


\* the call of g has more or fewer labels than values
ArityMismatch(g) ==
  /\ fn[g] \in {"NearDupeOptions", "PlaceLanguages"}
  /\ Len(args[g].labels) # Len(args[g].values)

\* the call of g has a name that is not valid UTF-8
InvalidName(g) == fn[g] = "NearDupeNameOptions" /\ ~ValidString(args[g].name)

\* the call of g has no labels and no values
ZeroComponents(g) ==
  /\ fn[g] \in {"NearDupeOptions", "PlaceLanguages"}
  /\ Len(args[g].labels) = 0
  /\ Len(args[g].values) = 0

\* g returns to its caller in this step
Returns(g) == pc[g] # "idle" /\ pc'[g] = "idle"

\* a call that trips a guard never waits for the mutex and can return
\* whoever holds it; a call without components waits for the mutex like any
\* other and goes no further than the test under it
GuardsBeforeLock ==
  \A g \in Goroutines :
    /\ (ArityMismatch(g) \/ InvalidName(g))
       => /\ pc[g] \in {"idle", "entry"}
          /\ (phase = "ready" /\ pc[g] = "entry") => ENABLED Guard(g)
    /\ ZeroComponents(g)
       => /\ pc[g] \in {"idle", "entry", "lock", "locked"}
          /\ (pc[g] = "lock" /\ mu # 0) => (~ENABLED Lock(g) /\ ret[g].kind = "none")

\* a call that trips a guard returns nil from its entry and leaves the mutex
\* alone; a call without components returns nil holding the mutex, and
\* releases it
GuardReturns ==
  \A g \in Goroutines :
    /\ ((ArityMismatch(g) \/ InvalidName(g)) /\ Returns(g))
       => (pc[g] = "entry" /\ ret'[g] = NilSlice /\ mu' = mu)
    /\ (ZeroComponents(g) /\ Returns(g))
       => (pc[g] = "locked" /\ mu = g /\ ret'[g] = NilSlice /\ mu' = 0)

\* C24: the arity-mismatch guard of NearDupeOptions and PlaceLanguages and the
\* invalid-UTF-8 guard of NearDupeNameOptions return before the mutex is
\* acquired, so such a call completes even while another goroutine holds the
\* lock; the zero-components guard is evaluated only after the mutex is
\* acquired, so a call with empty labels and values can be blocked by a call
\* in progress.
C24_GuardsBeforeLock == []GuardsBeforeLock /\ [][GuardReturns]_vars

\* a call without components waits for the mutex while another goroutine is
\* inside the library, and a call that trips a guard can return meanwhile
C24_Witness ==
  \E g, h \in Goroutines :
    /\ g # h
    /\ mu = h
    /\ native[h] # "none"
    /\ ZeroComponents(g)
    /\ pc[g] = "lock"


\* the places of a call under the lock, in the order of the code
CallOrder == <<"locked", "call", "native", "convert", "free", "unlock">>

\* g is in a call of NearDupeNameOptions, NearDupeOptions or PlaceLanguages
Working(g) == fn[g] \in {"NearDupeNameOptions", "NearDupeOptions", "PlaceLanguages"}

\* the mutex is held from mu.Lock() to the deferred unlock; the copies of the
\* inputs exist from before the library is entered until the frees, and the
\* library's array from its return until the frees
HeldThroughout ==
  \A g \in Goroutines :
    Working(g)
    => /\ pc[g] \in Range(CallOrder) => mu = g
       /\ cmem[g].live <=> pc[g] \in {"call", "native", "convert", "free"}
       /\ cres[g].live <=> pc[g] \in {"convert", "free"}
       /\ pc[g] \in {"free", "unlock"} => ret[g].kind = "slice"

\* one step of a call: the next place in the order, or the return; the result
\* is read while it is allocated, the frees come after the read and under the
\* lock, the lock is released after the frees
InOrder ==
  \A g \in Goroutines :
    Working(g)
    => /\ \A k \in 1..Len(CallOrder) :
            (pc[g] = CallOrder[k] /\ pc'[g] # pc[g])
            => \/ k < Len(CallOrder) /\ pc'[g] = CallOrder[k + 1]
               \/ k = Len(CallOrder) /\ pc'[g] = "idle"
               \/ k = 1 /\ pc'[g] = "idle" /\ ret'[g] = NilSlice
       /\ (ret'[g] # ret[g] /\ ret'[g].kind = "slice")
          => (cres[g].live /\ cres'[g].live /\ mu = g /\ mu' = g)
       /\ ((cres[g].live /\ ~cres'[g].live) \/ (cmem[g].live /\ ~cmem'[g].live))
          => (ret[g].kind = "slice" /\ mu = g /\ mu' = g)
       /\ (mu = g /\ mu' # g) => (~cmem[g].live /\ ~cres[g].live)

\* C25: within one call the steps are ordered: acquire the lock, copy the
\* inputs to native memory, call the library, copy every result string into
\* Go memory, free the native result array and the copies of the inputs,
\* release the lock; the result is never read after it is freed, and every
\* free happens while the lock is still held.
C25_StepOrder == []HeldThroughout /\ [][InOrder]_vars

\* a call has copied its keys and freed the array and the copies of its
\* inputs, and still holds the mutex
C25_Witness ==
  \E g \in Goroutines :
    /\ Working(g)
    /\ pc[g] = "unlock"
    /\ mu = g
    /\ Len(ret[g].items) > 1
    /\ ~cres[g].live
    /\ ~cmem[g].live


\* an input guard turned the call of g away: the name is not valid UTF-8,
\* labels and values differ in number, or there is no component
GuardTripped(g) == InvalidName(g) \/ ArityMismatch(g) \/ ZeroComponents(g)

\* the slice g returned holds the strings of the array the library handed
\* back, as many and in the same order
SameAsNative(g) ==
  /\ ret[g].kind = "slice"
  /\ Len(ret[g].items) = cres[g].n
  /\ \A i \in 1..cres[g].n : ret[g].items[i] = strz(cres[g].array[i])

\* C26: an entry point returns nil exactly when an input guard tripped
\* (invalid UTF-8 name, arity mismatch, zero components); whenever the library
\* was called, it returns a non-nil slice whose length is the count the
\* library reported, possibly zero, and whose i-th element is the i-th native
\* string.
C26_NilOnlyFromGuards ==
  \A g \in Goroutines :
    Done(g)
    => /\ ret[g].kind = "nil" <=> GuardTripped(g)
       /\ ran[g] = "no" <=> GuardTripped(g)
       /\ ran[g] # "no" => SameAsNative(g)

\* the library found no key for an address, and the call returned a slice of
\* length zero that is not nil
C26_Witness ==
  \E g \in Goroutines :
    /\ fn[g] = "NearDupeOptions"
    /\ Computed(g)
    /\ ~GuardTripped(g)
    /\ cres[g].n = 0
    /\ ret[g] = Slice(<<>>)

=============================================================================
